---- MODULE Spec2Model ----
(***************************************************************************)
(* Quill MCP: the SQLite store (quill_mcp/database.py) with its FTS5       *)
(* search index and triggers, the context engine                           *)
(* (quill_mcp/context_engine.py) with its scorer and budgeted selector,    *)
(* and the project and context tools of the server (quill_mcp/server.py).  *)
(*                                                                         *)
(* Text is modelled as a sequence of one-character strings, so that        *)
(* strip(), len() and the byte order SQLite sorts by are computed.         *)
(* The store state is the content of the tables that _init_schema          *)
(* declares; every store method is one action (one connection, one         *)
(* transaction), the AFTER INSERT/UPDATE/DELETE triggers run inside the    *)
(* statement that fires them.                                              *)
(***************************************************************************)
EXTENDS Integers, Sequences, FiniteSets, Bags, TLC

(***************************************************************************)
(* Bounds of the model.                                                    *)
(***************************************************************************)
MaxProjects == 2      \* projects ever created (cap of the AUTOINCREMENT counter)
MaxRows == 2          \* characters, plots, world elements and sessions ever created
MaxCallers == 2       \* callers of the store that run at the same time

(***************************************************************************)
(* Program constants.                                                      *)
(***************************************************************************)
MAX_PROJECT_NAME_LENGTH == 255
MAX_TITLE_LENGTH == 255

VARIABLES
    projects,          \* table projects: rows [id, name, target_words, updated_at]
    characters,        \* table characters: rows [id, project_id, name, importance,
                       \*                         description, relationships]
    plots,             \* table plots: rows [id, project_id, title, description, plot_type]
    world_building,    \* table world_building: rows [id, project_id, name, description]
    scenes,            \* table scenes: set of rows [id, project_id, word_count, status]
    writing_sessions,  \* table writing_sessions: set of rows [id, project_id]
    memory_search,     \* FTS5 table memory_search: bag of rows (the table has no key)
    sqlite_sequence,   \* AUTOINCREMENT counters, one per table
    result,            \* the last call: operation, arguments, outcome, returned value
    max_tokens,        \* ContextEngine.max_tokens
    working_tokens,    \* ContextEngine.working_tokens
    candidate_items,   \* the list handed to optimize_context_for_tokens
    selected_items,    \* the list optimize_context_for_tokens returned
    current_context,   \* ContextEngine.current_context
    auto_context,      \* ContextEngine.auto_context
    current_project_id,\* QuillMCPServer.current_project_id, 0 for None
    context_engine,    \* QuillMCPServer.context_engine: the fields of the instance
    state_file,        \* the file STATE_FILENAME: [exists, parses, value]
    clock,             \* the time CURRENT_TIMESTAMP and datetime.now() read
    connections        \* per caller, the call in progress and its open transaction

store == <<projects, characters, plots, world_building, scenes, writing_sessions,
           memory_search, sqlite_sequence>>

engine == <<max_tokens, working_tokens, candidate_items, selected_items>>

session == <<current_context, auto_context>>

server == <<current_project_id, context_engine, state_file>>

vars == <<store, result, engine, session, server, clock, connections>>

(***************************************************************************)
(* Text.                                                                   *)
(***************************************************************************)
Letters == <<"a","b","c","d","e","f","g","h","i","j","k","l","m",
             "n","o","p","q","r","s","t","u","v","w","x","y","z">>

Uppers == <<"A","B","C","D","E","F","G","H","I","J","K","L","M",
            "N","O","P","Q","R","S","T","U","V","W","X","Y","Z">>

Lowercase == {Letters[i] : i \in 1..Len(Letters)}
Uppercase == {Uppers[i] : i \in 1..Len(Uppers)}

IsLower(c) == c \in Lowercase
IsUpper(c) == c \in Uppercase

\* code point of a character: the order SQLite's BINARY collation compares by
Ord(c) == IF IsLower(c) THEN 96 + (CHOOSE i \in 1..Len(Letters) : Letters[i] = c)
          ELSE IF IsUpper(c) THEN 64 + (CHOOSE i \in 1..Len(Uppers) : Uppers[i] = c)
          ELSE CASE c = " " -> 32
                 [] c = "!" -> 33
                 [] c = "\"" -> 34
                 [] c = "," -> 44
                 [] c = "." -> 46
                 [] c = ":" -> 58
                 [] c = "?" -> 63

RECURSIVE TextLess(_, _)
TextLess(s, t) ==
    IF t = <<>> THEN FALSE
    ELSE IF s = <<>> THEN TRUE
    ELSE IF Ord(Head(s)) # Ord(Head(t)) THEN Ord(Head(s)) < Ord(Head(t))
    ELSE TextLess(Tail(s), Tail(t))

RECURSIVE lstrip(_)
lstrip(s) == IF s # <<>> /\ Head(s) = " " THEN lstrip(Tail(s)) ELSE s

RECURSIVE rstrip(_)
rstrip(s) == IF s # <<>> /\ s[Len(s)] = " " THEN rstrip(SubSeq(s, 1, Len(s) - 1)) ELSE s

\* str.strip(): surrounding whitespace removed
strip(s) == rstrip(lstrip(s))

\* the enumerated values as text
Text(v) == CASE v = "main"       -> <<"m","a","i","n">>
             [] v = "supporting" -> <<"s","u","p","p","o","r","t","i","n","g">>
             [] v = "minor"      -> <<"m","i","n","o","r">>
             [] v = "boss"       -> <<"b","o","s","s">>
             [] v = "subplot"    -> <<"s","u","b","p","l","o","t">>

\* a name of MAX_TITLE_LENGTH + 1 characters
LongName == [i \in 1..(MAX_TITLE_LENGTH + 1) |-> "a"]

\* the names and titles callers pass
Names == { <<>>, <<" ">>, <<" ", "a", " ">>, <<"b">>, LongName }

\* enum Importance
Importance == {"main", "supporting", "minor"}

\* the importance keyword of add_character: absent, a member of the enum, or not
NoKeyword == "<absent>"
ImportanceArgs == Importance \cup {"boss", NoKeyword}

TargetWords == {-1, 0, 5}
ProjectIdArgs == 0..MaxProjects

Tables == {"projects", "characters", "plots", "world_building", "writing_sessions"}

\* str.lower()
RECURSIVE lower(_)
lower(s) ==
    IF s = <<>> THEN <<>>
    ELSE LET c == Head(s)
         IN  <<IF IsUpper(c) THEN Letters[CHOOSE k \in 1..Len(Uppers) : Uppers[k] = c]
               ELSE c>> \o lower(Tail(s))

\* needle in haystack
Contains(haystack, needle) ==
    \E i \in 1..(Len(haystack) - Len(needle) + 1) :
        SubSeq(haystack, i, i + Len(needle) - 1) = needle

\* \w of the regular expressions, on the characters texts are made of
IsWordChar(c) == IsLower(c) \/ IsUpper(c)

\* the maximal runs of word characters of s, as <<first, last>> positions:
\* what \b...\b can enclose
RECURSIVE WordRunEnd(_, _)
WordRunEnd(s, i) ==
    IF i = Len(s) \/ ~IsWordChar(s[i + 1]) THEN i ELSE WordRunEnd(s, i + 1)

WordRuns(s) ==
    {<<i, WordRunEnd(s, i)>> :
        i \in {k \in 1..Len(s) : IsWordChar(s[k]) /\ (k = 1 \/ ~IsWordChar(s[k - 1]))}}

\* set(re.findall(r'\b\w+\b', s))
Words(s) == {SubSeq(s, r[1], r[2]) : r \in WordRuns(s)}

RECURSIVE Sum(_, _)
Sum(f, S) == IF S = {} THEN 0
             ELSE LET x == CHOOSE y \in S : TRUE IN f[x] + Sum(f, S \ {x})

(***************************************************************************)
(* _get_connection: the context manager every method runs its statements   *)
(* in.  An exception raised inside the with-block, whatever its class,     *)
(* leaves the block as DatabaseError.                                      *)
(***************************************************************************)
Sqlite3Errors == {"sqlite3.IntegrityError", "sqlite3.OperationalError",
                  "sqlite3.ProgrammingError"}

_get_connection(raised) ==
    IF raised \in Sqlite3Errors THEN "DatabaseError"   \* except sqlite3.Error
    ELSE "DatabaseError"                               \* except Exception

(***************************************************************************)
(* Validation helpers: the exception each raises, "ok" when none.          *)
(***************************************************************************)
_validate_project_name(name) ==
    IF name = <<>> \/ strip(name) = <<>> THEN "ValidationError"
    ELSE IF Len(name) > MAX_PROJECT_NAME_LENGTH THEN "ValidationError"
    ELSE "ok"

_validate_title(title) ==
    IF title = <<>> \/ strip(title) = <<>> THEN "ValidationError"
    ELSE IF Len(title) > MAX_TITLE_LENGTH THEN "ValidationError"
    ELSE "ok"

\* rows ever inserted into the tables a project owns
RowsEver == Sum(sqlite_sequence, Tables \ {"projects"})

ProjectExists(project_id) == \E p \in projects : p.id = project_id

\* the existence check raises its ValidationError inside the with-block
_validate_project_id(project_id) ==
    IF project_id <= 0 THEN "ValidationError"
    ELSE IF ~ProjectExists(project_id) THEN _get_connection("ValidationError")
    ELSE "ok"

(***************************************************************************)
(* The FTS5 triggers: the index after the statement that fires them.       *)
(***************************************************************************)
IndexRow(content_type, project_id, entity_id, title) ==
    [content_type |-> content_type, project_id |-> project_id,
     entity_id |-> entity_id, title |-> title]

\* AFTER INSERT: one index row for the new entity
fts_insert(index, content_type, new, title) ==
    index (+) SetToBag({IndexRow(content_type, new.project_id, new.id, title)})

\* AFTER UPDATE: the title of every row of the entity is overwritten
fts_update(index, content_type, new, title) ==
    LET Hit(r) == r.content_type = content_type /\ r.entity_id = new.id
        Set(r) == IF Hit(r) THEN [r EXCEPT !.title = title] ELSE r
    IN  BagOfAll(Set, index)

\* fts_delete with the content_type condition of the WHERE clause dropped
fts_delete_any_type(index, content_type, old) ==
    LET gone == {r \in BagToSet(index) : r.entity_id = old.id}
    IN  [r \in BagToSet(index) \ gone |-> index[r]]

\* AFTER DELETE: every row of the entity goes
fts_delete(index, content_type, old) ==
    LET gone == {r \in BagToSet(index) :
                    r.content_type = content_type /\ r.entity_id = old.id}
    IN  [r \in BagToSet(index) \ gone |-> index[r]]

RECURSIVE fts_delete_all(_, _, _)
fts_delete_all(index, content_type, rows) ==
    IF rows = {} THEN index
    ELSE LET old == CHOOSE r \in rows : TRUE
         IN  fts_delete_all(fts_delete(index, content_type, old), content_type,
                            rows \ {old})

\* the callers of the store; each call opens a connection of its own
Callers == 1..MaxCallers

\* a caller between two calls: no connection is open
Closed == [pc |-> "closed", op |-> "none", project_id |-> 0, name |-> <<>>,
           pending |-> <<>>]

NoConnections == connections = [c \in Callers |-> Closed]

(***************************************************************************)
(* Init: the empty database the schema statements create, a context engine *)
(* of the default budget, and the server as its constructor leaves it when *)
(* there is no state file.                                                 *)
(***************************************************************************)
NoCall == [op |-> "none", project_id |-> 0, name |-> <<>>, status |-> "ok", value |-> 0]

Call(op, project_id, name, status, value) ==
    [op |-> op, project_id |-> project_id, name |-> name, status |-> status,
     value |-> value]

\* a call of a store method returns (or raises): the engine and the server
\* are not involved
Returns(op, project_id, name, status, value) ==
    /\ result' = Call(op, project_id, name, status, value)
    /\ UNCHANGED <<engine, session, server, clock, connections>>

\* QuillMCPConfig.MAX_TOKENS, the budget the server constructs its engine with
MAX_TOKENS == 180000

\* ContextEngine.__init__: int(max_tokens * 0.8)
WorkingTokens(tokens) == (tokens * 8) \div 10

EmptyStore ==
    /\ projects = {}
    /\ characters = {}
    /\ plots = {}
    /\ world_building = {}
    /\ scenes = {}
    /\ writing_sessions = {}
    /\ memory_search = EmptyBag
    /\ sqlite_sequence = [t \in Tables |-> 0]
    /\ result = NoCall

\* ContextEngine.__init__ (context_engine.py): the cache and the policy
NewSession ==
    /\ current_context = <<>>
    /\ auto_context = TRUE

\* ContextEngine.__init__ of the class server.py defines after its import of
\* context_engine.ContextEngine: the name the server's constructor resolves
ServerContextEngine(tokens) ==
    [max_tokens |-> tokens, auto_context |-> TRUE, token_buffer |-> tokens \div 10]

\* the state file: absent, or a text that int() parses to value or rejects
NoStateFile == [exists |-> FALSE, parses |-> FALSE, value |-> 0]
StateFile(value) == [exists |-> TRUE, parses |-> TRUE, value |-> value]
NotAnInteger == [exists |-> TRUE, parses |-> FALSE, value |-> 0]

\* QuillMCPServer.__init__: no state file, no current project
NewServer ==
    /\ current_project_id = 0
    /\ context_engine = ServerContextEngine(MAX_TOKENS)
    /\ state_file = NoStateFile

Init ==
    /\ EmptyStore
    /\ max_tokens = MAX_TOKENS
    /\ working_tokens = WorkingTokens(MAX_TOKENS)
    /\ candidate_items = <<>>
    /\ selected_items = <<>>
    /\ NewSession
    /\ NewServer
    /\ clock = 0
    /\ NoConnections

\* a call that fails before its statement writes: only the outcome is new
Fails(op, project_id, name, status) ==
    /\ Returns(op, project_id, name, status, 0)
    /\ UNCHANGED store

\* the tables a statement of the add methods writes, as the transaction finds them
Begun ==
    [characters |-> characters, plots |-> plots, world_building |-> world_building,
     writing_sessions |-> writing_sessions, memory_search |-> memory_search,
     sqlite_sequence |-> sqlite_sequence]

\* rollback with the writes of the failed statement left in place
no_rollback(begun, pending) == pending

\* the failed statement is undone and conn.rollback() ends the transaction:
\* the tables are as they were when it began
rollback(begun, pending) == begun

\* a call whose statement fails after it has written (the foreign key is
\* checked when the row and its index row are in)
FailsRolledBack(op, project_id, name, status, pending) ==
    LET after == rollback(Begun, pending)
    IN  /\ characters' = after.characters
        /\ plots' = after.plots
        /\ world_building' = after.world_building
        /\ writing_sessions' = after.writing_sessions
        /\ memory_search' = after.memory_search
        /\ sqlite_sequence' = after.sqlite_sequence
        /\ UNCHANGED <<projects, scenes>>
        /\ Returns(op, project_id, name, status, 0)

(***************************************************************************)
(* create_project                                                          *)
(***************************************************************************)
create_project(name, target_words) ==
    LET id == sqlite_sequence["projects"] + 1
        \* the INSERT violates UNIQUE(name): IntegrityError inside the with-block
        leaves == _get_connection("sqlite3.IntegrityError")
        \* except sqlite3.IntegrityError around the with-block
        caught == IF leaves = "sqlite3.IntegrityError" THEN "ValidationError" ELSE leaves
    IN
    IF _validate_project_name(name) # "ok"
        THEN Fails("create_project", 0, name, _validate_project_name(name))
    ELSE IF target_words < 0
        THEN Fails("create_project", 0, name, "ValidationError")
    ELSE IF \E p \in projects : p.name = strip(name)
        THEN Fails("create_project", 0, name, caught)
    ELSE
        /\ id <= MaxProjects
        /\ projects' = projects \cup
               {[id |-> id, name |-> strip(name), target_words |-> target_words,
                 updated_at |-> clock]}
        /\ sqlite_sequence' = [sqlite_sequence EXCEPT !["projects"] = id]
        /\ Returns("create_project", 0, name, "ok", id)
        /\ UNCHANGED <<characters, plots, world_building, scenes, writing_sessions,
                       memory_search>>

(***************************************************************************)
(* update_project.  kwargs is the list of <<column, value>> pairs the      *)
(* caller passes as keywords.                                              *)
(***************************************************************************)
MaxClock == 2         \* the times the clock is seen to advance

\* time passes between calls
tick ==
    /\ clock < MaxClock
    /\ clock' = clock + 1
    /\ UNCHANGED <<store, result, engine, session, server, connections>>

\* the columns of table projects
ProjectColumns == {"id", "name", "description", "genre", "target_words",
                   "current_words", "created_at", "updated_at"}

Has(kwargs, column) == \E i \in DOMAIN kwargs : kwargs[i][1] = column
Get(kwargs, column) == kwargs[CHOOSE i \in DOMAIN kwargs : kwargs[i][1] = column][2]

update_project(project_id, kwargs) ==
    LET old == CHOOSE p \in projects : p.id = project_id
        new == [old EXCEPT
                   !.name = IF Has(kwargs, "name") THEN Get(kwargs, "name") ELSE @,
                   !.target_words = IF Has(kwargs, "target_words")
                                    THEN Get(kwargs, "target_words") ELSE @,
                   \* kwargs['updated_at'] = datetime.now().isoformat()
                   !.updated_at = clock]
    IN
    IF kwargs = <<>>                               \* if not kwargs: return False
        THEN /\ Returns("update_project", project_id, <<>>, "ok", FALSE)
             /\ UNCHANGED store
    ELSE IF \E i \in DOMAIN kwargs : kwargs[i][1] \notin ProjectColumns
        THEN Fails("update_project", project_id, <<>>,
                   _get_connection("sqlite3.OperationalError"))
    ELSE IF ~ProjectExists(project_id)
        THEN /\ Returns("update_project", project_id, <<>>, "ok", FALSE)
             /\ UNCHANGED store
    ELSE IF \E p \in projects : p.id # project_id /\ p.name = new.name
        THEN Fails("update_project", project_id, <<>>,
                   _get_connection("sqlite3.IntegrityError"))
    ELSE
        /\ projects' = (projects \ {old}) \cup {new}
        /\ Returns("update_project", project_id, <<>>, "ok", TRUE)
        /\ UNCHANGED <<characters, plots, world_building, scenes, writing_sessions,
                       memory_search, sqlite_sequence>>

\* the field changes callers pass
KwargsArgs == { <<>>,
                << <<"genre", <<"a">>>> >>,
                << <<"target_words", 5>> >>,
                << <<"name", <<"b">>>> >>,
                << <<"name", <<>>>> >>,
                << <<"nocol", 0>> >> }

(***************************************************************************)
(* delete_project: DELETE FROM projects; ON DELETE CASCADE removes the     *)
(* owned rows, whose AFTER DELETE triggers remove their index rows.        *)
(***************************************************************************)
\* the rows of a table that reference the project
Owned(rows, project_id) == {r \in rows : r.project_id = project_id}

\* on_delete_cascade with the foreign keys not enforced: nothing is deleted
no_cascade(rows, project_id) == {}

\* FOREIGN KEY (project_id) REFERENCES projects(id) ON DELETE CASCADE:
\* the rows of a table the deletion of the project's row deletes
on_delete_cascade(rows, project_id) == Owned(rows, project_id)

delete_project(project_id) ==
    LET success == ProjectExists(project_id)
        Gone(rows) == IF success THEN on_delete_cascade(rows, project_id) ELSE {}
    IN
    /\ projects' = {p \in projects : p.id # project_id}
    /\ characters' = characters \ Gone(characters)
    /\ plots' = plots \ Gone(plots)
    /\ world_building' = world_building \ Gone(world_building)
    /\ scenes' = scenes \ Gone(scenes)
    /\ writing_sessions' = writing_sessions \ Gone(writing_sessions)
    /\ memory_search' =
           fts_delete_all(
               fts_delete_all(
                   fts_delete_all(memory_search, "character", Gone(characters)),
                   "plot", Gone(plots)),
               "world_building", Gone(world_building))
    /\ Returns("delete_project", project_id, <<>>, "ok", success)
    /\ UNCHANGED sqlite_sequence

(***************************************************************************)
(* add_character                                                           *)
(***************************************************************************)
add_character(project_id, name, importance, description, relationships) ==
    LET id == sqlite_sequence["characters"] + 1
        new == [id |-> id, project_id |-> project_id, name |-> strip(name),
                importance |-> IF importance = NoKeyword THEN "minor" ELSE importance,
                \* DEFAULT '': the keyword left out is the keyword given as ''
                description |-> description,
                relationships |-> IF relationships = NoKeyword THEN "{}"
                                  ELSE relationships]
    IN
    IF _validate_project_id(project_id) # "ok"
        THEN Fails("add_character", project_id, name, _validate_project_id(project_id))
    ELSE IF _validate_title(name) # "ok"
        THEN Fails("add_character", project_id, name, _validate_title(name))
    ELSE IF importance # NoKeyword /\ importance \notin Importance
        THEN Fails("add_character", project_id, name, "ValidationError")
    ELSE
        /\ RowsEver < MaxRows
        /\ characters' = characters \cup {new}
        /\ memory_search' = fts_insert(memory_search, "character", new, new.name)
        /\ sqlite_sequence' = [sqlite_sequence EXCEPT !["characters"] = id]
        /\ Returns("add_character", project_id, name, "ok", id)
        /\ UNCHANGED <<projects, plots, world_building, scenes, writing_sessions>>

(***************************************************************************)
(* add_plot: no validation; the INSERT fails on the foreign key when the   *)
(* project does not exist.                                                 *)
(***************************************************************************)
add_plot(project_id, title, description, plot_type) ==
    LET id == sqlite_sequence["plots"] + 1
        new == [id |-> id, project_id |-> project_id, title |-> title,
                description |-> description,
                plot_type |-> IF plot_type = NoKeyword THEN "main" ELSE plot_type]
    IN
    IF ~ProjectExists(project_id)
        THEN FailsRolledBack("add_plot", project_id, title,
                 _get_connection("sqlite3.IntegrityError"),
                 [Begun EXCEPT
                     !.plots = plots \cup {new},
                     !.memory_search = fts_insert(memory_search, "plot", new, new.title),
                     !.sqlite_sequence = [sqlite_sequence EXCEPT !["plots"] = id]])
    ELSE
        /\ RowsEver < MaxRows
        /\ plots' = plots \cup {new}
        /\ memory_search' = fts_insert(memory_search, "plot", new, new.title)
        /\ sqlite_sequence' = [sqlite_sequence EXCEPT !["plots"] = id]
        /\ Returns("add_plot", project_id, title, "ok", id)
        /\ UNCHANGED <<projects, characters, world_building, scenes, writing_sessions>>

(***************************************************************************)
(* add_world_building: as add_plot.                                        *)
(***************************************************************************)
add_world_building(project_id, name) ==
    LET id == sqlite_sequence["world_building"] + 1
        new == [id |-> id, project_id |-> project_id, name |-> name,
                description |-> <<>>]
    IN
    IF ~ProjectExists(project_id)
        THEN FailsRolledBack("add_world_building", project_id, name,
                 _get_connection("sqlite3.IntegrityError"),
                 [Begun EXCEPT
                     !.world_building = world_building \cup {new},
                     !.memory_search =
                         fts_insert(memory_search, "world_building", new, new.name),
                     !.sqlite_sequence =
                         [sqlite_sequence EXCEPT !["world_building"] = id]])
    ELSE
        /\ RowsEver < MaxRows
        /\ world_building' = world_building \cup {new}
        /\ memory_search' = fts_insert(memory_search, "world_building", new, new.name)
        /\ sqlite_sequence' = [sqlite_sequence EXCEPT !["world_building"] = id]
        /\ Returns("add_world_building", project_id, name, "ok", id)
        /\ UNCHANGED <<projects, characters, plots, scenes, writing_sessions>>

(***************************************************************************)
(* record_writing_session                                                  *)
(***************************************************************************)
record_writing_session(project_id) ==
    LET id == sqlite_sequence["writing_sessions"] + 1
    IN
    IF ~ProjectExists(project_id)
        THEN FailsRolledBack("record_writing_session", project_id, <<>>,
                 _get_connection("sqlite3.IntegrityError"),
                 [Begun EXCEPT
                     !.writing_sessions = writing_sessions \cup
                         {[id |-> id, project_id |-> project_id]},
                     !.sqlite_sequence =
                         [sqlite_sequence EXCEPT !["writing_sessions"] = id]])
    ELSE
        /\ RowsEver < MaxRows
        /\ writing_sessions' = writing_sessions \cup
               {[id |-> id, project_id |-> project_id]}
        /\ sqlite_sequence' = [sqlite_sequence EXCEPT !["writing_sessions"] = id]
        /\ Returns("record_writing_session", project_id, <<>>, "ok", 0)
        /\ UNCHANGED <<projects, characters, plots, world_building, scenes,
                       memory_search>>

(***************************************************************************)
(* json.loads, on the texts the relationships column is given.  A decoded  *)
(* value is [type, keys, truthy, text]: its Python type, the keys of a     *)
(* dict, its truth value, and the text of a str.                           *)
(***************************************************************************)
Decoded(type, keys, truthy, text) ==
    [raised |-> FALSE, type |-> type, keys |-> keys, truthy |-> truthy, text |-> text]

JSONDecodeError == [raised |-> TRUE, type |-> "", keys |-> {}, truthy |-> FALSE, text |-> ""]

json_loads(text) ==
    CASE text = "{}" -> Decoded("dict", {}, FALSE, "")
      [] text = "{\"Mira\": \"ally\"}" -> Decoded("dict", {<<"M","i","r","a">>}, TRUE, "")
      [] text = "[1]" -> Decoded("list", {}, TRUE, "")
      [] text = "null" -> Decoded("NoneType", {}, FALSE, "")
      [] text = "\"not json\"" -> Decoded("str", {}, TRUE, "not json")
      [] text = "not json" -> JSONDecodeError

\* get_characters: char['relationships'] = json.loads(...), {} when it raises
decode_relationships(row) ==
    [row EXCEPT !.relationships =
        IF json_loads(@).raised THEN Decoded("dict", {}, FALSE, "") ELSE json_loads(@)]

(***************************************************************************)
(* get_characters: ORDER BY importance DESC, name.  Both columns are TEXT, *)
(* compared as text; rows equal in both come in any order.                 *)
(***************************************************************************)
\* row r sorts strictly before row s
CharacterBefore(r, s) ==
    \/ TextLess(Text(s.importance), Text(r.importance))
    \/ r.importance = s.importance /\ TextLess(r.name, s.name)

\* the lists of all the rows in which no row comes after one it sorts before
CharacterOrderings(rows) ==
    {out \in [1..Cardinality(rows) -> rows] :
        /\ \A i, j \in DOMAIN out : i # j => out[i] # out[j]
        /\ \A i, j \in DOMAIN out : i < j => ~CharacterBefore(out[j], out[i])}

get_characters(project_id) ==
    \E out \in CharacterOrderings(Owned(characters, project_id)) :
        /\ Returns("get_characters", project_id, <<>>, "ok",
                   [i \in DOMAIN out |-> decode_relationships(out[i])])
        /\ UNCHANGED store

(***************************************************************************)
(* get_project_stats                                                       *)
(***************************************************************************)
NotFound == [found |-> FALSE]

RECURSIVE SumWordCount(_)
SumWordCount(rows) ==
    IF rows = {} THEN 0
    ELSE LET r == CHOOSE x \in rows : TRUE
         IN  r.word_count + SumWordCount(rows \ {r})

\* the outcome and the value of get_project_stats in the current state
ProjectStats(project_id) ==
    LET project == CHOOSE p \in projects : p.id = project_id
        owned_scenes == Owned(scenes, project_id)
        total_scenes == Cardinality(owned_scenes)
        completed == Cardinality({s \in owned_scenes : s.status = "complete"})
        \* SUM(word_count) is NULL over no rows: None / target_words is a TypeError
        sum_is_null == owned_scenes = {}
        stats == [found |-> TRUE,
                  project |-> project,
                  characters |-> Cardinality(Owned(characters, project_id)),
                  plots |-> Cardinality(Owned(plots, project_id)),
                  world_building |-> Cardinality(Owned(world_building, project_id)),
                  total_scenes |-> total_scenes,
                  completed_scenes |-> completed,
                  \* completion_rate and progress in whole percent
                  completion_rate |-> IF total_scenes > 0
                                      THEN (completed * 100) \div total_scenes ELSE 0,
                  current_words |-> SumWordCount(owned_scenes),
                  progress |-> IF project.target_words > 0
                               THEN (SumWordCount(owned_scenes) * 100)
                                        \div project.target_words
                               ELSE 0]
    IN
    IF ~ProjectExists(project_id)
        THEN [status |-> "ok", value |-> NotFound]
    ELSE IF project.target_words > 0 /\ sum_is_null
        THEN [status |-> _get_connection("TypeError"), value |-> 0]
    ELSE [status |-> "ok", value |-> stats]

get_project_stats(project_id) ==
    /\ Returns("get_project_stats", project_id, <<>>,
               ProjectStats(project_id).status, ProjectStats(project_id).value)
    /\ UNCHANGED store

(***************************************************************************)
(* Row updates and deletes.  The store has no method that updates or       *)
(* deletes one character, plot or world element; the schema handles the    *)
(* statements UPDATE <table> SET name/title = ? WHERE id = ? and           *)
(* DELETE FROM <table> WHERE id = ? through its triggers.                  *)
(***************************************************************************)
EntityNames == {<<"a">>, <<"b">>}

update_character_row(id, name) ==
    \E old \in characters :
        /\ old.id = id
        /\ LET new == [old EXCEPT !.name = name]
           IN  /\ characters' = (characters \ {old}) \cup {new}
               /\ memory_search' = fts_update(memory_search, "character", new, new.name)
               /\ Returns("update_character_row", old.project_id, name, "ok", id)
        /\ UNCHANGED <<projects, plots, world_building, scenes, writing_sessions,
                       sqlite_sequence>>

update_plot_row(id, title) ==
    \E old \in plots :
        /\ old.id = id
        /\ LET new == [old EXCEPT !.title = title]
           IN  /\ plots' = (plots \ {old}) \cup {new}
               /\ memory_search' = fts_update(memory_search, "plot", new, new.title)
               /\ Returns("update_plot_row", old.project_id, title, "ok", id)
        /\ UNCHANGED <<projects, characters, world_building, scenes, writing_sessions,
                       sqlite_sequence>>

update_world_building_row(id, name) ==
    \E old \in world_building :
        /\ old.id = id
        /\ LET new == [old EXCEPT !.name = name]
           IN  /\ world_building' = (world_building \ {old}) \cup {new}
               /\ memory_search' =
                      fts_update(memory_search, "world_building", new, new.name)
               /\ Returns("update_world_building_row", old.project_id, name,
                                 "ok", id)
        /\ UNCHANGED <<projects, characters, plots, scenes, writing_sessions,
                       sqlite_sequence>>

delete_character_row(id) ==
    \E old \in characters :
        /\ old.id = id
        /\ characters' = characters \ {old}
        /\ memory_search' = fts_delete(memory_search, "character", old)
        /\ Returns("delete_character_row", old.project_id, <<>>, "ok", id)
        /\ UNCHANGED <<projects, plots, world_building, scenes, writing_sessions,
                       sqlite_sequence>>

delete_plot_row(id) ==
    \E old \in plots :
        /\ old.id = id
        /\ plots' = plots \ {old}
        /\ memory_search' = fts_delete(memory_search, "plot", old)
        /\ Returns("delete_plot_row", old.project_id, <<>>, "ok", id)
        /\ UNCHANGED <<projects, characters, world_building, scenes, writing_sessions,
                       sqlite_sequence>>

delete_world_building_row(id) ==
    \E old \in world_building :
        /\ old.id = id
        /\ world_building' = world_building \ {old}
        /\ memory_search' = fts_delete(memory_search, "world_building", old)
        /\ Returns("delete_world_building_row", old.project_id, <<>>, "ok", id)
        /\ UNCHANGED <<projects, characters, plots, scenes, writing_sessions,
                       sqlite_sequence>>

(***************************************************************************)
(* The store with well-formed arguments: projects are created, filled,     *)
(* changed and deleted in any order.                                       *)
(***************************************************************************)
ProjectNames == {<<"a">>, <<"b">>}

Next ==
    \/ \E name \in ProjectNames : create_project(name, 0)
    \/ \E project_id \in ProjectIdArgs : delete_project(project_id)
    \/ \E project_id \in ProjectIdArgs :
           add_character(project_id, <<"a">>, NoKeyword, <<>>, NoKeyword)
    \/ \E project_id \in ProjectIdArgs :
           add_plot(project_id, <<"a">>, <<>>, NoKeyword)
    \/ \E project_id \in ProjectIdArgs : add_world_building(project_id, <<"a">>)
    \/ \E project_id \in ProjectIdArgs : record_writing_session(project_id)
    \/ \E project_id \in ProjectIdArgs : get_project_stats(project_id)
    \/ \E id \in 1..MaxRows, name \in EntityNames : update_character_row(id, name)
    \/ \E id \in 1..MaxRows, title \in EntityNames : update_plot_row(id, title)
    \/ \E id \in 1..MaxRows, name \in EntityNames : update_world_building_row(id, name)
    \/ \E id \in 1..MaxRows : delete_character_row(id)
    \/ \E id \in 1..MaxRows : delete_plot_row(id)
    \/ \E id \in 1..MaxRows : delete_world_building_row(id)

Spec == Init /\ [][Next]_vars

(***************************************************************************)
(* Projects created with any name and any target, updated and deleted.     *)
(***************************************************************************)
NextProjects ==
    \/ \E name \in Names, target_words \in TargetWords :
           create_project(name, target_words)
    \/ \E project_id \in ProjectIdArgs : delete_project(project_id)
    \/ \E project_id \in ProjectIdArgs : get_project_stats(project_id)
    \/ \E project_id \in ProjectIdArgs, kwargs \in KwargsArgs :
           update_project(project_id, kwargs)
    \/ tick

SpecProjects == Init /\ [][NextProjects]_vars

(***************************************************************************)
(* Characters added with any argument, and listed.                         *)
(***************************************************************************)
NextCharacters ==
    \/ \E name \in ProjectNames : create_project(name, 0)
    \/ \E project_id \in ProjectIdArgs : delete_project(project_id)
    \/ \E project_id \in ProjectIdArgs, name \in Names, importance \in ImportanceArgs :
           add_character(project_id, name, importance, <<>>, NoKeyword)
    \/ \E project_id \in ProjectIdArgs : get_characters(project_id)

SpecCharacters == Init /\ [][NextCharacters]_vars

(***************************************************************************)
(* Plots and world elements added with any argument.                       *)
(***************************************************************************)
NextPlots ==
    \/ \E name \in ProjectNames : create_project(name, 0)
    \/ \E project_id \in ProjectIdArgs : delete_project(project_id)
    \/ \E project_id \in ProjectIdArgs, title \in Names :
           add_plot(project_id, title, <<>>, NoKeyword)
    \/ \E project_id \in ProjectIdArgs, name \in Names :
           add_world_building(project_id, name)

SpecPlots == Init /\ [][NextPlots]_vars

(***************************************************************************)
(* ContextEngine.optimize_context_for_tokens.                              *)
(*                                                                         *)
(* A ContextItem is [entity_id, content, relevance_score, token_estimate,  *)
(* importance]; content_type and title are copied unread and left out.     *)
(* relevance_score is in tenths.  content is [chars, truncated]: chars     *)
(* characters of the item's text, followed by the marker                   *)
(* "... [truncated]" when truncated.                                       *)
(***************************************************************************)
MaxCandidates == 3    \* length of the candidate list

\* "Only truncate if meaningful space left"
MIN_TRUNCATE_TOKENS == 100

\* "Rough char estimate" of one token
CHARS_PER_TOKEN == 4

Min(a, b) == IF a < b THEN a ELSE b

\* sorted_by_score without reverse=True: the lowest score first
RECURSIVE sorted_by_score_ascending(_)
sorted_by_score_ascending(items) ==
    IF items = <<>> THEN <<>>
    ELSE LET front == sorted_by_score_ascending(SubSeq(items, 1, Len(items) - 1))
             last == items[Len(items)]
             ahead == Cardinality({i \in DOMAIN front :
                          front[i].relevance_score <= last.relevance_score})
         IN  SubSeq(front, 1, ahead) \o <<last>> \o SubSeq(front, ahead + 1, Len(front))

\* sorted(..., key=relevance_score, reverse=True): stable, equal scores keep
\* the order they came in
RECURSIVE sorted_by_score(_)
sorted_by_score(items) ==
    IF items = <<>> THEN <<>>
    ELSE LET front == sorted_by_score(SubSeq(items, 1, Len(items) - 1))
             last == items[Len(items)]
             ahead == Cardinality({i \in DOMAIN front :
                          front[i].relevance_score >= last.relevance_score})
         IN  SubSeq(front, 1, ahead) \o <<last>> \o SubSeq(front, ahead + 1, Len(front))

IsHigh(item) == item.importance \in {"main", "high"}
IsMedium(item) == item.importance = "medium"
IsLow(item) == item.importance \notin {"main", "high", "medium"}

IsNotHigh(item) == ~IsHigh(item)

\* low_importance with 'medium' missing from its list: the medium items are
\* in two groups
low_importance_with_medium(sorted_items) == SelectSeq(sorted_items, IsNotHigh)

high_importance(sorted_items) == SelectSeq(sorted_items, IsHigh)
medium_importance(sorted_items) == SelectSeq(sorted_items, IsMedium)
low_importance(sorted_items) == SelectSeq(sorted_items, IsLow)

\* truncated_item with the cost estimated again from the truncated content
truncated_item_reestimated(item, remaining_tokens) ==
    LET chars == Min(item.content.chars, remaining_tokens * CHARS_PER_TOKEN)
    IN  [item EXCEPT
            !.content = [chars |-> chars, truncated |-> TRUE],
            !.token_estimate = (chars + 15) \div CHARS_PER_TOKEN]

\* item.content[:remaining_tokens * 4] + "... [truncated]"
truncated_item(item, remaining_tokens) ==
    [item EXCEPT
        !.content = [chars |-> Min(item.content.chars, remaining_tokens * CHARS_PER_TOKEN),
                     truncated |-> TRUE],
        !.token_estimate = remaining_tokens]

\* walk_group with the fit test made before the item's cost is added
RECURSIVE walk_group_overshoot(_, _, _, _)
walk_group_overshoot(priority_group, i, acc, limit) ==
    IF i > Len(priority_group) THEN acc
    ELSE LET item == priority_group[i]
             remaining_tokens == limit - acc.total_tokens
         IN  IF acc.total_tokens <= limit
             THEN walk_group_overshoot(priority_group, i + 1,
                      [selected_items |-> Append(acc.selected_items, item),
                       total_tokens |-> acc.total_tokens + item.token_estimate],
                      limit)
             ELSE IF remaining_tokens > MIN_TRUNCATE_TOKENS
             THEN [selected_items |->
                       Append(acc.selected_items, truncated_item(item, remaining_tokens)),
                   total_tokens |-> limit]
             ELSE acc

\* walk_group without its break: an item that does not fit and is not
\* truncated is passed over and the group is walked on
RECURSIVE walk_group_without_break(_, _, _, _)
walk_group_without_break(priority_group, i, acc, limit) ==
    IF i > Len(priority_group) THEN acc
    ELSE LET item == priority_group[i]
             remaining_tokens == limit - acc.total_tokens
         IN  IF acc.total_tokens + item.token_estimate <= limit
             THEN walk_group_without_break(priority_group, i + 1,
                      [selected_items |-> Append(acc.selected_items, item),
                       total_tokens |-> acc.total_tokens + item.token_estimate],
                      limit)
             ELSE IF remaining_tokens > MIN_TRUNCATE_TOKENS
             THEN [selected_items |->
                       Append(acc.selected_items, truncated_item(item, remaining_tokens)),
                   total_tokens |-> limit]
             ELSE walk_group_without_break(priority_group, i + 1, acc, limit)

\* the inner loop over one priority group, from item i on;
\* acc = [selected_items, total_tokens]
RECURSIVE walk_group(_, _, _, _)
walk_group(priority_group, i, acc, limit) ==
    IF i > Len(priority_group) THEN acc
    ELSE LET item == priority_group[i]
             remaining_tokens == limit - acc.total_tokens
         IN  IF acc.total_tokens + item.token_estimate <= limit
             THEN walk_group(priority_group, i + 1,
                      [selected_items |-> Append(acc.selected_items, item),
                       total_tokens |-> acc.total_tokens + item.token_estimate],
                      limit)
             ELSE IF remaining_tokens > MIN_TRUNCATE_TOKENS
             THEN [selected_items |->
                       Append(acc.selected_items, truncated_item(item, remaining_tokens)),
                   total_tokens |-> limit]           \* break
             ELSE acc                                \* break

\* the outer loop over the priority groups, from group g on
RECURSIVE walk_groups(_, _, _, _)
walk_groups(groups, g, acc, limit) ==
    IF g > Len(groups) THEN acc
    ELSE LET after == walk_group(groups[g], 1, acc, limit)
         IN  IF after.total_tokens >= limit THEN after      \* break
             ELSE walk_groups(groups, g + 1, after, limit)

\* optimize_context_for_tokens with one group, by score alone
optimize_by_score_only(items, limit) ==
    walk_groups(<<sorted_by_score(items)>>, 1,
                [selected_items |-> <<>>, total_tokens |-> 0], limit).selected_items

optimize_context_for_tokens(items, limit) ==
    LET sorted_items == sorted_by_score(items)
        groups == <<high_importance(sorted_items), medium_importance(sorted_items),
                    low_importance(sorted_items)>>
    IN  walk_groups(groups, 1, [selected_items |-> <<>>, total_tokens |-> 0],
                    limit).selected_items

(***************************************************************************)
(* The selector on every candidate list and budget of the bounded sets.    *)
(***************************************************************************)
MaxTokensArgs == {63, 250}
Scores == {12, 27}
TokenEstimates == {5, 40, 200}
Importances == {"main", "high", "medium", "normal"}

ItemArgs == [relevance_score : Scores, token_estimate : TokenEstimates,
             importance : Importances]

\* candidate i is entity i; its content is as long as its estimate says
Candidate(i, arg) ==
    [entity_id |-> i,
     content |-> [chars |-> arg.token_estimate * CHARS_PER_TOKEN, truncated |-> FALSE],
     relevance_score |-> arg.relevance_score,
     token_estimate |-> arg.token_estimate,
     importance |-> arg.importance]

InitSelect ==
    /\ EmptyStore
    /\ max_tokens \in MaxTokensArgs
    /\ working_tokens = WorkingTokens(max_tokens)
    /\ \E n \in 0..MaxCandidates : \E args \in [1..n -> ItemArgs] :
           candidate_items = [i \in 1..n |-> Candidate(i, args[i])]
    /\ selected_items = <<>>
    /\ NewSession
    /\ NewServer
    /\ clock = 0
    /\ NoConnections

Select ==
    /\ result.op = "none"
    /\ selected_items' = optimize_context_for_tokens(candidate_items, working_tokens)
    /\ result' = Call("optimize_context_for_tokens", 0, <<>>, "ok", 0)
    /\ UNCHANGED <<store, max_tokens, working_tokens, candidate_items, session,
                   server, clock, connections>>

NextSelect == Select

SpecSelect == InitSelect /\ [][NextSelect]_vars

(***************************************************************************)
(* Properties of the store.                                                *)
(***************************************************************************)
ContentTypes == {"character", "plot", "world_building"}

\* the live entities of a content type
Live(content_type) ==
    CASE content_type = "character" -> characters
      [] content_type = "plot" -> plots
      [] content_type = "world_building" -> world_building

\* number of index rows keyed (content_type, entity_id)
IndexCount(index, content_type, entity_id) ==
    Sum(index, {r \in BagToSet(index) :
                   r.content_type = content_type /\ r.entity_id = entity_id})

IndexRowOf(r, project_id) ==
    /\ r.content_type \in ContentTypes
    /\ \E e \in Owned(Live(r.content_type), project_id) : e.id = r.entity_id

C6_CreateProjectRejects ==
    [][(/\ result'.op = "create_project"
        /\ \/ strip(result'.name) = <<>>
           \/ \E p \in projects : p.name = strip(result'.name))
       => (result'.status = "ValidationError" /\ projects' = projects)
      ]_vars

\* C7: add_character with a positive project id that references no project
\* fails with ValidationError and inserts no character row and no index row.
C7_AddCharacterUnknownProject ==
    [][(/\ result'.op = "add_character"
        /\ result'.project_id > 0
        /\ ~ProjectExists(result'.project_id))
       => /\ result'.status = "ValidationError"
          /\ characters' = characters
          /\ memory_search' = memory_search
      ]_vars

\* C8: add_plot and add_world_building with an empty, whitespace-only or
\* over-long title/name, or with a project id that references no project,
\* fail with ValidationError and store no row.
C8_AddPlotWorldValidate ==
    [][(/\ result'.op \in {"add_plot", "add_world_building"}
        /\ \/ _validate_title(result'.name) # "ok"
           \/ ~ProjectExists(result'.project_id))
       => /\ result'.status = "ValidationError"
          /\ plots' = plots
          /\ world_building' = world_building
          /\ memory_search' = memory_search
      ]_vars

\* main before supporting before minor
ImportanceRank(importance) ==
    CASE importance = "main" -> 1
      [] importance = "supporting" -> 2
      [] importance = "minor" -> 3

\* C9: get_characters(project_id) returns the project's characters with every
\* main character before every supporting one and every supporting one
\* before every minor one, and by name within the same importance.
C9_CharactersByImportance ==
    result.op = "get_characters" =>
        LET out == result.value
        IN  /\ Len(out) = Cardinality(Owned(characters, result.project_id))
            /\ {out[i].id : i \in DOMAIN out}
                   = {c.id : c \in Owned(characters, result.project_id)}
            /\ \A i, j \in DOMAIN out : i < j =>
                   /\ ImportanceRank(out[i].importance) <= ImportanceRank(out[j].importance)
                   /\ out[i].importance = out[j].importance
                          => ~TextLess(out[j].name, out[i].name)

(***************************************************************************)
(* Properties of the selector.                                             *)
(***************************************************************************)
Selected == result.op = "optimize_context_for_tokens"

RECURSIVE TokenSum(_)
TokenSum(items) ==
    IF items = <<>> THEN 0
    ELSE Head(items).token_estimate + TokenSum(Tail(items))

\* tier 1 = main or high, tier 2 = medium, tier 3 = everything else
Tier(item) == IF item.importance \in {"main", "high"} THEN 1
              ELSE IF item.importance = "medium" THEN 2
              ELSE 3

\* C2: for candidates that each cost at least one token, the summed
\* token_estimate of the list optimize_context_for_tokens returns is at most
\* working_tokens.
C2_WithinBudget ==
    (Selected /\ \A i \in DOMAIN candidate_items : candidate_items[i].token_estimate >= 1)
        => TokenSum(selected_items) <= working_tokens

\* C2 witness: the candidates cost more than the budget and the selection
\* fills it.
C2_Witness ==
    /\ Selected
    /\ TokenSum(candidate_items) > working_tokens
    /\ Len(selected_items) >= 2
    /\ TokenSum(selected_items) = working_tokens

\* C3: in the returned list an item of a higher tier is never placed after an
\* item of a lower tier, whatever the scores.
C3_TierOrder ==
    Selected =>
        \A i, j \in DOMAIN selected_items :
            i < j => Tier(selected_items[i]) <= Tier(selected_items[j])

\* C3 witness: an item of tier 1 is placed before an item of a lower tier
\* that has the higher score.
C3_Witness ==
    /\ Selected
    /\ \E i, j \in DOMAIN selected_items :
           /\ i < j
           /\ Tier(selected_items[i]) = 1
           /\ Tier(selected_items[j]) > 1
           /\ selected_items[i].relevance_score < selected_items[j].relevance_score

\* C4: a truncated item's token_estimate is the budget left when it is
\* reached, it is the last item returned, and at most one item is truncated.
C4_Truncation ==
    Selected =>
        \A k \in DOMAIN selected_items :
            selected_items[k].content.truncated =>
                /\ selected_items[k].token_estimate =
                       working_tokens - TokenSum(SubSeq(selected_items, 1, k - 1))
                /\ k = Len(selected_items)
                /\ \A j \in DOMAIN selected_items :
                       selected_items[j].content.truncated => j = k

\* C4 witness: an item is truncated after whole items, and candidates are
\* left out behind it.
C4_Witness ==
    /\ Selected
    /\ Len(selected_items) >= 2
    /\ selected_items[Len(selected_items)].content.truncated
    /\ Len(selected_items) < Len(candidate_items)

\* the order the selector walks the candidates in
WalkOrder(items) ==
    high_importance(sorted_by_score(items)) \o medium_importance(sorted_by_score(items))
        \o low_importance(sorted_by_score(items))

\* C5: when the first candidate that does not fit whole is reached with at
\* most 100 tokens left, nothing is truncated and no candidate later in the
\* walk order, of the same tier or of a lower one, is returned.
C5_StopsWithoutTruncating ==
    Selected =>
        LET walk == WalkOrder(candidate_items)
            Cost(k) == TokenSum(SubSeq(walk, 1, k))
            misfits == {k \in DOMAIN walk : Cost(k) > working_tokens}
        IN  misfits # {} =>
                LET first == CHOOSE k \in misfits : \A m \in misfits : k <= m
                IN  working_tokens - Cost(first - 1) <= MIN_TRUNCATE_TOKENS =>
                        /\ \A i \in DOMAIN selected_items :
                               ~selected_items[i].content.truncated
                        /\ \A j \in first..Len(walk) : \A i \in DOMAIN selected_items :
                               selected_items[i].entity_id # walk[j].entity_id

(***************************************************************************)
(* Properties of get_project_stats.                                        *)
(***************************************************************************)
\* C11: for every existing project, whatever its target word count and its
\* number of scenes (a positive target and no scenes included),
\* get_project_stats returns a stats object without fault, with a completion
\* rate of 0 when the project has no scenes and a progress of 0 when the
\* target word count is 0.
C11_StatsNeverFault ==
    (result.op = "get_project_stats" /\ ProjectExists(result.project_id)) =>
        /\ result.status = "ok"
        /\ result.value.found
        /\ Owned(scenes, result.project_id) = {} => result.value.completion_rate = 0
        /\ result.value.project.target_words = 0 => result.value.progress = 0

(***************************************************************************)
(* ContextEngine.estimate_tokens.                                          *)
(***************************************************************************)
MaxTextLen == 120     \* characters of the texts estimate_tokens is called on

Max(a, b) == IF a > b THEN a ELSE b

\* max(1, len(text) // 4)
estimate_tokens(text) == Max(1, Len(text) \div CHARS_PER_TOKEN)

TextArgs == {[i \in 1..n |-> "a"] : n \in 0..MaxTextLen}

Estimate(text) ==
    /\ result' = Call("estimate_tokens", 0, text, "ok", estimate_tokens(text))
    /\ UNCHANGED <<store, engine, session, server, clock, connections>>

NextEstimate == \E text \in TextArgs : Estimate(text)

SpecEstimate == Init /\ [][NextEstimate]_vars

\* C12: estimate_tokens(text) is the number of characters of text divided by
\* 4 and rounded up, with a minimum of 1, for every text.
C12_EstimateRoundedUp ==
    result.op = "estimate_tokens" =>
        result.value = Max(1, (Len(result.name) + CHARS_PER_TOKEN - 1) \div CHARS_PER_TOKEN)

(***************************************************************************)
(* search_memory.  The statement has one ? per WHERE condition value and   *)
(* one for LIMIT; the parameters bound to it begin with the query.         *)
(***************************************************************************)
Range(f) == {f[i] : i \in DOMAIN f}

search_memory(query, project_id, content_types, limit) ==
    LET by_project == project_id # 0          \* if project_id:
        by_type == content_types # <<>>       \* if content_types:
        params == <<query>>
                    \o (IF by_project THEN <<project_id>> ELSE <<>>)
                    \o (IF by_type THEN content_types ELSE <<>>)
                    \o <<limit>>
        placeholders == (IF by_project THEN 1 ELSE 0)
                          + (IF by_type THEN Len(content_types) ELSE 0)
                          + 1
        hits == {r \in BagToSet(memory_search) :
                    /\ by_project => r.project_id = project_id
                    /\ by_type => r.content_type \in Range(content_types)}
    IN
    IF Len(params) # placeholders
        \* "Incorrect number of bindings supplied"
        THEN Fails("search_memory", project_id, query,
                   _get_connection("sqlite3.ProgrammingError"))
    ELSE \E rows \in SUBSET hits :
            /\ Cardinality(rows) = Min(limit, Cardinality(hits))
            /\ Returns("search_memory", project_id, query, "ok", rows)
            /\ UNCHANGED store

Queries == {<<"a">>, <<"b">>}
ContentTypesArgs == {<<>>, <<"character">>, <<"character", "plot">>}
Limits == {1, 20}

NextSearch ==
    \/ \E name \in ProjectNames : create_project(name, 0)
    \/ \E project_id \in ProjectIdArgs, name \in EntityNames :
           add_character(project_id, name, NoKeyword, <<>>, NoKeyword)
    \/ \E project_id \in ProjectIdArgs, title \in EntityNames :
           add_plot(project_id, title, <<>>, NoKeyword)
    \/ \E query \in Queries, project_id \in ProjectIdArgs,
          content_types \in ContentTypesArgs, limit \in Limits :
           search_memory(query, project_id, content_types, limit)

SpecSearch == Init /\ [][NextSearch]_vars

\* the index row holds the query as one of its words
Matches(row, query) == lower(query) \in Words(lower(row.title))

\* C13: search_memory(query, project_id, content_types, limit) on a valid
\* query returns, without failing, at most limit index rows, each of which
\* matches the query, belongs to the project when project_id is supplied and
\* has one of the content types when content_types is supplied.
C13_SearchReturnsMatches ==
    [][\A query \in Queries, project_id \in ProjectIdArgs,
          content_types \in ContentTypesArgs, limit \in Limits :
          search_memory(query, project_id, content_types, limit) =>
              /\ result'.status = "ok"
              /\ Cardinality(result'.value) <= limit
              /\ \A row \in result'.value :
                     /\ Matches(row, query)
                     /\ project_id # 0 => row.project_id = project_id
                     /\ content_types # <<>> => row.content_type \in Range(content_types)
      ]_vars

(***************************************************************************)
(* Properties of update_project.                                           *)
(***************************************************************************)
\* C18: update_project(id, fieldChanges) refreshes the project's updated_at
\* for every set of field changes, the empty one included, and returns true
\* exactly when a project row with that id exists.
C18_UpdateProjectRefreshes ==
    [][\A id \in ProjectIdArgs :
          (result'.op = "update_project" /\ result'.project_id = id
              /\ result'.status = "ok")
          => /\ result'.value = ProjectExists(id)
             /\ \A p \in projects' : p.id = id => p.updated_at = clock
      ]_vars

(***************************************************************************)
(* Every store method, called with arguments that make it fail and with    *)
(* arguments that do not.                                                  *)
(***************************************************************************)
NextFailures ==
    \/ \E name \in {<<>>, <<"a">>}, target_words \in {-1, 5} :
           create_project(name, target_words)
    \/ \E project_id \in ProjectIdArgs,
          kwargs \in {<< <<"name", <<"b">>>> >>, << <<"nocol", 0>> >>} :
           update_project(project_id, kwargs)
    \/ \E project_id \in ProjectIdArgs : delete_project(project_id)
    \/ \E project_id \in ProjectIdArgs, name \in {<<>>, <<"a">>},
          importance \in {NoKeyword, "boss"} :
           add_character(project_id, name, importance, <<>>, NoKeyword)
    \/ \E project_id \in ProjectIdArgs :
           add_plot(project_id, <<"a">>, <<>>, NoKeyword)
    \/ \E project_id \in ProjectIdArgs : add_world_building(project_id, <<"a">>)
    \/ \E project_id \in ProjectIdArgs : record_writing_session(project_id)
    \/ \E project_id \in ProjectIdArgs : get_project_stats(project_id)
    \/ search_memory(<<"a">>, 0, <<>>, 20)

SpecFailures == Init /\ [][NextFailures]_vars

MinOf(S) == CHOOSE x \in S : \A y \in S : x <= y

\* [A-Z][a-z]+ from one word boundary to the next
IsCapitalized(word) ==
    /\ Len(word) >= 2
    /\ IsUpper(word[1])
    /\ \A k \in 2..Len(word) : IsLower(word[k])

\* re.findall(r'\b[A-Z][a-z]+\b', text)
capitalized_words(text) == {word \in Words(text) : IsCapitalized(word)}

\* the matches of "([^"]+)" from position from on, as <<first, last>> of the group
RECURSIVE quoted_spans(_, _)
quoted_spans(text, from) ==
    LET opening == {k \in from..Len(text) : text[k] = "\""}
    IN  IF opening = {} THEN {}
        ELSE LET open == MinOf(opening)
                 closing == {k \in (open + 1)..Len(text) : text[k] = "\""}
             IN  IF closing = {} THEN {}
                 ELSE IF MinOf(closing) = open + 1
                      THEN quoted_spans(text, open + 1)
                 ELSE {<<open + 1, MinOf(closing) - 1>>}
                          \cup quoted_spans(text, MinOf(closing) + 1)

RECURSIVE SplitRunEnd(_, _)
SplitRunEnd(s, i) == IF i = Len(s) \/ s[i + 1] = " " THEN i ELSE SplitRunEnd(s, i + 1)

\* str.split(): the maximal runs without whitespace
split(s) ==
    {SubSeq(s, i, SplitRunEnd(s, i)) :
        i \in {k \in 1..Len(s) : s[k] # " " /\ (k = 1 \/ s[k - 1] = " ")}}

Punctuation == {".", ",", "!", "?"}

RECURSIVE lstrip_punctuation(_)
lstrip_punctuation(s) ==
    IF s # <<>> /\ Head(s) \in Punctuation THEN lstrip_punctuation(Tail(s)) ELSE s

RECURSIVE rstrip_punctuation(_)
rstrip_punctuation(s) ==
    IF s # <<>> /\ s[Len(s)] \in Punctuation
    THEN rstrip_punctuation(SubSeq(s, 1, Len(s) - 1)) ELSE s

\* word.strip('.,!?') for word in quote.split() if len(word) > 2
quoted_words(text) ==
    UNION {{rstrip_punctuation(lstrip_punctuation(word)) :
               word \in {w \in split(SubSeq(text, q[1], q[2])) : Len(w) > 2}} :
           q \in quoted_spans(text, 1)}

\* the runs [A-Z][a-z]+ stands for
CapitalizedRuns(text) ==
    {r \in WordRuns(text) : IsCapitalized(SubSeq(text, r[1], r[2]))}

\* \s+ and nothing else lies between run r and run q
Linked(text, r, q) ==
    /\ r[2] < q[1]
    /\ \A k \in (r[2] + 1)..(q[1] - 1) : text[k] = " "

RECURSIVE PhraseEnd(_, _)
PhraseEnd(text, r) ==
    LET next == {q \in CapitalizedRuns(text) : Linked(text, r, q)}
    IN  IF next = {} THEN r[2]
        ELSE PhraseEnd(text, CHOOSE q \in next : TRUE)

\* re.findall(r'\b[A-Z][a-z]+(?:\s+[A-Z][a-z]+)*\b', text)
title_case_phrases(text) ==
    LET runs == CapitalizedRuns(text)
    IN  {SubSeq(text, r[1], PhraseEnd(text, r)) :
            r \in {q \in runs : ~\E b \in runs : Linked(text, b, q)}}

extract_entities(text) ==
    capitalized_words(text) \cup quoted_words(text) \cup title_case_phrases(text)

(***************************************************************************)
(* get_plots and get_world_building: ORDER BY plot_type, title and         *)
(* ORDER BY category, name (every world element of the model is of the     *)
(* default category).                                                      *)
(***************************************************************************)
PlotBefore(r, s) ==
    \/ TextLess(Text(r.plot_type), Text(s.plot_type))
    \/ r.plot_type = s.plot_type /\ TextLess(r.title, s.title)

PlotOrderings(rows) ==
    {out \in [1..Cardinality(rows) -> rows] :
        /\ \A i, j \in DOMAIN out : i # j => out[i] # out[j]
        /\ \A i, j \in DOMAIN out : i < j => ~PlotBefore(out[j], out[i])}

WorldBefore(r, s) == TextLess(r.name, s.name)

WorldOrderings(rows) ==
    {out \in [1..Cardinality(rows) -> rows] :
        /\ \A i, j \in DOMAIN out : i # j => out[i] # out[j]
        /\ \A i, j \in DOMAIN out : i < j => ~WorldBefore(out[j], out[i])}

(***************************************************************************)
(* ContextEngine.calculate_relevance_score.  Scores are counted in units   *)
(* of 1/SCORE_UNITS, so that every weight and every similarity             *)
(* overlap/total with total up to 10 is a whole number.                    *)
(***************************************************************************)
SCORE_UNITS == 2520

scoring_weights ==
    [exact_match |-> 2 * SCORE_UNITS,
     name_match |-> (3 * SCORE_UNITS) \div 2,
     semantic_similarity |-> SCORE_UNITS,
     recency |-> SCORE_UNITS \div 2,
     importance |-> (6 * SCORE_UNITS) \div 5,
     relationship |-> (4 * SCORE_UNITS) \div 5]

\* memory_item is [content_type, entity_id, title, content, metadata], and
\* metadata the dict get_relevant_context builds: [importance, plot_type,
\* relationships], NoKeyword for a key the dict does not have.
\* The result is [raised, score].
calculate_relevance_score(memory_item, current_text, entities) ==
    LET title == lower(memory_item.title)
        content == lower(memory_item.content)
        current_lower == lower(current_text)
        exact == IF Contains(current_lower, title)
                 THEN scoring_weights.exact_match ELSE 0
        mentions == Cardinality({entity \in entities :
                        \/ Contains(title, lower(entity))
                        \/ Contains(content, lower(entity))})
        current_words == Words(current_lower)
        memory_words == Words(content)
        overlap == Cardinality(current_words \cap memory_words)
        total_unique == Cardinality(current_words \cup memory_words)
        similarity == IF current_words # {} /\ memory_words # {}
                      THEN (overlap * scoring_weights.semantic_similarity)
                               \div total_unique
                      ELSE 0
        importance == memory_item.metadata
        boost == IF importance.importance = "main" THEN scoring_weights.importance
                 ELSE IF importance.plot_type = "main" THEN scoring_weights.importance
                 ELSE 0
        stored == importance.relationships
        \* a str is decoded once more, {} when that raises
        relationships ==
            IF stored.type = "str"
            THEN IF json_loads(stored.text).raised
                 THEN Decoded("dict", {}, FALSE, "") ELSE json_loads(stored.text)
            ELSE stored
        is_character == memory_item.content_type = "character"
        \* relationships.keys() on a value that is not a dict: AttributeError
        raised == is_character /\ relationships.truthy /\ relationships.type # "dict"
        related == IF /\ is_character
                      /\ relationships.truthy
                      /\ \E rel \in relationships.keys : Contains(current_lower, lower(rel))
                   THEN scoring_weights.relationship ELSE 0
    IN  IF raised THEN [raised |-> TRUE, score |-> 0]
        ELSE [raised |-> FALSE,
              score |-> exact + mentions * scoring_weights.name_match + similarity
                            + boost + related]

(***************************************************************************)
(* ContextEngine.get_relevant_context, on the lists get_characters,        *)
(* get_plots and get_world_building return.  The result is [raised, value].*)
(***************************************************************************)
character_memory(char) ==
    [content_type |-> "character", entity_id |-> char.id, title |-> char.name,
     \* f"{description} {personality} {backstory}"
     content |-> char.description \o <<" ", " ">>,
     metadata |-> [importance |-> char.importance, plot_type |-> NoKeyword,
                   relationships |-> char.relationships]]

plot_memory(plot) ==
    [content_type |-> "plot", entity_id |-> plot.id, title |-> plot.title,
     content |-> plot.description,
     metadata |-> [importance |-> NoKeyword, plot_type |-> plot.plot_type,
                   relationships |-> NoKeyword]]

world_memory(world) ==
    [content_type |-> "world_building", entity_id |-> world.id, title |-> world.name,
     \* f"{description} {details}"
     content |-> world.description \o <<" ">>,
     metadata |-> [importance |-> NoKeyword, plot_type |-> NoKeyword,
                   relationships |-> NoKeyword]]

\* "Determine importance level"
importance_level(metadata) ==
    IF metadata.importance = "main" \/ metadata.plot_type = "main" THEN "high"
    ELSE IF metadata.importance = "supporting" \/ metadata.plot_type = "subplot"
    THEN "medium"
    ELSE "normal"

\* the ContextItem of a memory item; content_text is f"{title}: {content}"
ContextItem(memory, relevance_score) ==
    LET content_text == memory.title \o <<":", " ">> \o memory.content
    IN  [content_type |-> memory.content_type,
         entity_id |-> memory.entity_id,
         title |-> memory.title,
         content |-> [chars |-> Len(content_text), truncated |-> FALSE],
         relevance_score |-> relevance_score,
         token_estimate |-> estimate_tokens(content_text),
         importance |-> importance_level(memory.metadata)]

HasRelevance(item) == item.relevance_score > 0

\* with_relevance without its test: every item is a candidate
with_or_without_relevance(items) == items

\* if relevance_score > 0: "Only include items with some relevance"
with_relevance(items) == SelectSeq(items, HasRelevance)

\* for memory in all_memory, from item i on: the items scored so far are in
\* acc; the result is [raised, items]
RECURSIVE scored_items(_, _, _, _, _)
scored_items(all_memory, i, current_text, entities, acc) ==
    IF i > Len(all_memory) THEN [raised |-> FALSE, items |-> acc]
    ELSE LET relevance_score ==
                 calculate_relevance_score(all_memory[i], current_text, entities)
         IN  IF relevance_score.raised THEN [raised |-> TRUE, items |-> acc]
             ELSE scored_items(all_memory, i + 1, current_text, entities,
                      Append(acc, ContextItem(all_memory[i], relevance_score.score)))

get_relevant_context(current_text, characters_list, plots_list, world_list, limit) ==
    LET entities == extract_entities(current_text)
        all_memory ==
            [i \in DOMAIN characters_list |-> character_memory(characters_list[i])]
                \o [i \in DOMAIN plots_list |-> plot_memory(plots_list[i])]
                \o [i \in DOMAIN world_list |-> world_memory(world_list[i])]
        scored == scored_items(all_memory, 1, current_text, entities, <<>>)
        candidates == with_relevance(scored.items)
    IN  IF strip(current_text) = <<>> THEN [raised |-> FALSE, value |-> <<>>]
        ELSE IF scored.raised
            THEN [raised |-> TRUE, value |-> <<>>]
        ELSE IF candidates # <<>>
            THEN [raised |-> FALSE,
                  value |-> optimize_context_for_tokens(candidates, limit)]
        ELSE [raised |-> FALSE, value |-> <<>>]

\* the lists the three getters return for the project, in every order the
\* ORDER BY clauses allow
Gathered(project_id) ==
    {[characters |-> [i \in DOMAIN c |-> decode_relationships(c[i])],
      plots |-> p, world_building |-> w] :
        c \in CharacterOrderings(Owned(characters, project_id)),
        p \in PlotOrderings(Owned(plots, project_id)),
        w \in WorldOrderings(Owned(world_building, project_id))}

\* a call of get_relevant_context by a client of the engine
relevant_context(current_text, project_id) ==
    \E db \in Gathered(project_id) :
        LET got == get_relevant_context(current_text, db.characters, db.plots,
                                        db.world_building, working_tokens)
        IN  /\ result' = Call("get_relevant_context", project_id, current_text,
                              IF got.raised THEN "AttributeError" ELSE "ok", got.value)
            /\ UNCHANGED <<store, engine, session, server, clock, connections>>

(***************************************************************************)
(* ContextEngine.update_context and clear_context, and the assignment to   *)
(* auto_context by which a client turns the automatic refresh on and off.  *)
(***************************************************************************)
\* update_context without the test of auto_context
update_context_always(current_text, project_id) ==
    \E db \in Gathered(project_id) :
        LET got == get_relevant_context(current_text, db.characters, db.plots,
                                        db.world_building, working_tokens)
        IN  /\ current_context' = IF got.raised THEN current_context ELSE got.value
            /\ result' = Call("update_context", project_id, current_text,
                              IF got.raised THEN "AttributeError" ELSE "ok", 0)
            /\ UNCHANGED <<store, engine, auto_context, server, clock, connections>>

update_context(current_text, project_id) ==
    IF auto_context
    THEN \E db \in Gathered(project_id) :
            LET got == get_relevant_context(current_text, db.characters, db.plots,
                                            db.world_building, working_tokens)
            IN  /\ current_context' = IF got.raised THEN current_context ELSE got.value
                /\ result' = Call("update_context", project_id, current_text,
                                  IF got.raised THEN "AttributeError" ELSE "ok", 0)
                /\ UNCHANGED <<store, engine, auto_context, server, clock, connections>>
    ELSE /\ result' = Call("update_context", project_id, current_text, "ok", 0)
         /\ UNCHANGED <<store, engine, session, server, clock, connections>>

\* self.current_context.clear()
clear_context ==
    /\ current_context' = <<>>
    /\ result' = Call("clear_context", 0, <<>>, "ok", 0)
    /\ UNCHANGED <<store, engine, auto_context, server, clock, connections>>

set_auto_context(enabled) ==
    /\ auto_context' = enabled
    /\ result' = Call("set_auto_context", 0, <<>>, "ok", enabled)
    /\ UNCHANGED <<store, engine, current_context, server, clock, connections>>

(***************************************************************************)
(* The engine over a store that is being filled: characters, plots and     *)
(* world elements are added to projects and the context is refreshed.      *)
(***************************************************************************)
Mira == <<"M","i","r","a">>
Bob == <<"B","o","b">>
TheHeist == <<"T","h","e"," ","H","e","i","s","t">>
Vault == <<"V","a","u","l","t">>

\* "Mira planned the heist carefully."
Excerpt == <<"M","i","r","a"," ","p","l","a","n","n","e","d"," ","t","h","e"," ",
             "h","e","i","s","t"," ","c","a","r","e","f","u","l","l","y",".">>

\* "Mira planned the heist"
Planned == SubSeq(Excerpt, 1, 22)

Excerpts == {Excerpt, <<" ">>}

\* the keywords add_character is called with
Character(name, importance, relationships) ==
    [name |-> name, importance |-> importance, relationships |-> relationships]

\* the keywords add_plot is called with
Plot(title, description, plot_type) ==
    [title |-> title, description |-> description, plot_type |-> plot_type]

RelationshipsArgs == {NoKeyword, "{\"Mira\": \"ally\"}", "not json", "[1]", "null",
                      "\"not json\""}

(***************************************************************************)
(* get_relevant_context called on projects that hold characters with any   *)
(* relationships text, plots and world elements.                           *)
(***************************************************************************)
NextRelevant ==
    \/ create_project(<<"a">>, 0)
    \/ \E project_id \in 1..MaxProjects,
          c \in {Character(Mira, "main", NoKeyword)}
                   \cup {Character(Bob, NoKeyword, r) : r \in RelationshipsArgs} :
           add_character(project_id, c.name, c.importance, <<>>, c.relationships)
    \/ \E project_id \in 1..MaxProjects,
          p \in {Plot(TheHeist, <<>>, NoKeyword), Plot(Vault, <<>>, "subplot")} :
           add_plot(project_id, p.title, p.description, p.plot_type)
    \/ \E project_id \in 1..MaxProjects : add_world_building(project_id, Vault)
    \/ \E current_text \in Excerpts, project_id \in 1..MaxProjects :
           relevant_context(current_text, project_id)

SpecRelevant == Init /\ [][NextRelevant]_vars

(***************************************************************************)
(* The cached context: characters and plots are added, the refresh is      *)
(* turned on and off and the context is refreshed and cleared.             *)
(***************************************************************************)
NextContext ==
    \/ create_project(<<"a">>, 0)
    \/ \E project_id \in 1..MaxProjects,
          c \in {Character(Mira, "main", NoKeyword), Character(Bob, NoKeyword, NoKeyword),
                 Character(Bob, NoKeyword, "[1]")} :
           add_character(project_id, c.name, c.importance, <<>>, c.relationships)
    \/ \E project_id \in 1..MaxProjects,
          p \in {Plot(TheHeist, <<>>, "main"), Plot(TheHeist, Planned, "main")} :
           add_plot(project_id, p.title, p.description, p.plot_type)
    \/ \E enabled \in BOOLEAN : set_auto_context(enabled)
    \/ clear_context
    \/ \E current_text \in Excerpts, project_id \in 1..MaxProjects :
           update_context(current_text, project_id)

SpecContext == Init /\ [][NextContext]_vars

(***************************************************************************)
(* C15: get_relevant_context never fails because of an item's metadata:    *)
(* whatever relationships text the characters of the project were stored   *)
(* with (text that is not JSON, or JSON that is not an object: a list,     *)
(* null, a string), a call on a stored project returns a selection, and a  *)
(* character whose relationships are not an object gets no relationship    *)
(* signal, so that it is scored as the same character stored with the      *)
(* default relationships.                                                  *)
(***************************************************************************)
C15_MetadataNeverFails ==
    result.op = "get_relevant_context" =>
        /\ result.status = "ok"
        /\ \A db \in Gathered(result.project_id) :
              \A i \in DOMAIN db.characters :
                  db.characters[i].relationships.type # "dict" =>
                      LET plain == [db.characters[i] EXCEPT
                                       !.relationships = Decoded("dict", {}, FALSE, "")]
                          entities == extract_entities(result.name)
                      IN  calculate_relevance_score(character_memory(db.characters[i]),
                                                    result.name, entities)
                          = calculate_relevance_score(character_memory(plain),
                                                      result.name, entities)

(***************************************************************************)
(* C16: get_relevant_context never returns an item whose relevance score   *)
(* is 0: every item of a returned selection has a positive score, which is *)
(* the sum of its signals against the excerpt.                             *)
(***************************************************************************)
C16_NoZeroScoreItem ==
    (result.op = "get_relevant_context" /\ result.status = "ok") =>
        \A i \in DOMAIN result.value : result.value[i].relevance_score > 0

\* a selection was returned that leaves out a world element of the project,
\* which has no signal against the excerpt
C16_Witness ==
    /\ result.op = "get_relevant_context"
    /\ result.status = "ok"
    /\ result.value # <<>>
    /\ \E w \in Owned(world_building, result.project_id) :
          \A i \in DOMAIN result.value :
              ~(/\ result.value[i].content_type = "world_building"
                /\ result.value[i].entity_id = w.id)

(***************************************************************************)
(* C17: in a project that holds only the character "Mira" (importance      *)
(* main) and the plot "The Heist" (plot_type main), both added with no     *)
(* other keyword, a refresh of the context with the excerpt                *)
(* "Mira planned the heist carefully." selects both items, scores "Mira"   *)
(* at least 2.0 and places "Mira" before "The Heist".                      *)
(***************************************************************************)
MiraAndTheHeist(project_id) ==
    /\ \E c \in characters :
          /\ Owned(characters, project_id) = {c}
          /\ c.name = Mira /\ c.importance = "main" /\ c.description = <<>>
    /\ \E p \in plots :
          /\ Owned(plots, project_id) = {p}
          /\ p.title = TheHeist /\ p.plot_type = "main" /\ p.description = <<>>
    /\ Owned(world_building, project_id) = {}

Responds(op, project_id, name, status, value) ==
    /\ result' = Call(op, project_id, name, status, value)
    /\ UNCHANGED <<engine, session, clock, connections>>

\* ContextEngine.get_context_info of the class server.py defines: the usage
\* is the fixed text "~15,000 tokens"
server_get_context_info(project_id) ==
    [max_tokens |-> context_engine.max_tokens,
     estimated_usage |-> 15000,
     buffer_remaining |-> context_engine.token_buffer,
     auto_optimization |-> context_engine.auto_context]

\* self.db.get_project(project_id): the row, None when there is none
get_project(project_id) ==
    IF ProjectExists(project_id)
    THEN CHOOSE p \in projects : p.id = project_id
    ELSE NoKeyword

\* _save_current_project(project_id) with a project id: write_text(str(id))
_save_current_project(project_id) == StateFile(project_id)

project_new(name, target_words) ==
    LET id == sqlite_sequence["projects"] + 1
    IN
    \* get_project_by_name raises on an empty name; except Exception
    IF name = <<>> \/ strip(name) = <<>>
        THEN /\ Responds("project_new", 0, name, "ERROR", 0)
             /\ UNCHANGED <<store, server>>
    \* if existing
    ELSE IF \E p \in projects : p.name = strip(name)
        THEN /\ Responds("project_new", 0, name, "ERROR", 0)
             /\ UNCHANGED <<store, server>>
    \* create_project raises ValidationError; except Exception
    ELSE IF _validate_project_name(name) # "ok" \/ target_words < 0
        THEN /\ Responds("project_new", 0, name, "ERROR", 0)
             /\ UNCHANGED <<store, server>>
    ELSE
        /\ id <= MaxProjects
        /\ projects' = projects \cup
               {[id |-> id, name |-> strip(name), target_words |-> target_words,
                 updated_at |-> clock]}
        /\ sqlite_sequence' = [sqlite_sequence EXCEPT !["projects"] = id]
        \* "Set as current project"
        /\ current_project_id' = id
        /\ state_file' = _save_current_project(id)
        /\ Responds("project_new", id, name, "ok", id)
        /\ UNCHANGED <<characters, plots, world_building, scenes, writing_sessions,
                       memory_search, context_engine>>

project_switch(name) ==
    IF name = <<>> \/ strip(name) = <<>>
        THEN /\ Responds("project_switch", 0, name, "ERROR", 0)
             /\ UNCHANGED <<store, server>>
    ELSE IF ~\E p \in projects : p.name = strip(name)
        THEN /\ Responds("project_switch", 0, name, "ERROR", 0)
             /\ UNCHANGED <<store, server>>
    ELSE LET project == CHOOSE p \in projects : p.name = strip(name)
             stats == ProjectStats(project.id)
         IN  \* the project is current before its stats are asked for; when
             \* get_project_stats raises, the tool answers with an error
             /\ current_project_id' = project.id
             /\ state_file' = _save_current_project(project.id)
             /\ Responds("project_switch", project.id, name,
                         IF stats.status = "ok" THEN "ok" ELSE "ERROR", 0)
             /\ UNCHANGED <<store, context_engine>>

context_auto(enabled) ==
    /\ context_engine' = [context_engine EXCEPT !.auto_context = enabled]
    /\ Responds("context_auto", 0, <<>>, "ok", enabled)
    /\ UNCHANGED <<store, current_project_id, state_file>>

context_show ==
    /\ IF current_project_id = 0
       THEN Responds("context_show", 0, <<>>, "ERROR", 0)
       ELSE Responds("context_show", current_project_id, <<>>, "ok",
                     [project_id |-> current_project_id,
                      context_engine |-> server_get_context_info(current_project_id)])
    /\ UNCHANGED <<store, server>>

\* the resource memory://context/current
get_current_context ==
    /\ IF current_project_id = 0
       THEN Responds("get_current_context", 0, <<>>, "No active project",
                     [current_project |-> NoKeyword, context_size |-> 0])
       ELSE Responds("get_current_context", current_project_id, <<>>, "ok",
                     [current_project |-> get_project(current_project_id),
                      context_info |-> server_get_context_info(current_project_id)])
    /\ UNCHANGED <<store, server>>

\* _load_current_project: [raised, project_id, state_file], project_id 0 for
\* None.  get_project raises ValidationError on an id that is not positive,
\* which is not among the exceptions the method catches.
_load_current_project ==
    IF ~state_file.exists
        THEN [raised |-> "none", project_id |-> 0, state_file |-> state_file]
    \* int(...) raises ValueError: warning, return None
    ELSE IF ~state_file.parses
        THEN [raised |-> "none", project_id |-> 0, state_file |-> state_file]
    ELSE IF state_file.value <= 0
        THEN [raised |-> "ValidationError", project_id |-> 0, state_file |-> state_file]
    ELSE IF ProjectExists(state_file.value)
        THEN [raised |-> "none", project_id |-> state_file.value,
              state_file |-> state_file]
    \* state_file.unlink()
    ELSE [raised |-> "none", project_id |-> 0, state_file |-> NoStateFile]

\* QuillMCPServer.__init__ on the data directory as it is: the engine is
\* built, then the current project is loaded; except Exception: ServerError
QuillMCPServer__init__ ==
    LET loaded == _load_current_project
    IN  /\ context_engine' = ServerContextEngine(MAX_TOKENS)
        /\ current_project_id' = loaded.project_id
        /\ state_file' = loaded.state_file
        /\ Responds("__init__", loaded.project_id, <<>>,
                    IF loaded.raised = "none" THEN "ok" ELSE "ServerError", 0)
        /\ UNCHANGED store

\* the texts the state file is found with, written while no server runs
StateFileArgs == {StateFile(n) : n \in -1..(MaxProjects + 1)} \cup {NotAnInteger}

\* the state file is replaced from outside the server
state_file_replaced(found) ==
    /\ state_file' = found
    /\ Responds("state_file_replaced", 0, <<>>, "ok", 0)
    /\ UNCHANGED <<store, current_project_id, context_engine>>

NextServer ==
    \/ \E name \in ProjectNames \cup {<<>>}, target_words \in TargetWords :
           project_new(name, target_words)
    \/ \E name \in ProjectNames \cup {<<>>} : project_switch(name)
    \/ \E enabled \in BOOLEAN : context_auto(enabled)
    \/ context_show
    \/ get_current_context
    \/ \E project_id \in 1..MaxProjects : delete_project(project_id)
    \/ \E found \in StateFileArgs : state_file_replaced(found)
    \/ QuillMCPServer__init__

SpecServer == Init /\ [][NextServer]_vars

(***************************************************************************)
(* C20: whenever the server gives the context info of the engine it holds  *)
(* (tool context_show, resource memory://context/current), the info        *)
(* reports an item count that is the number of cached context items, an    *)
(* estimated usage that is the sum of their token costs, and a remaining   *)
(* capacity that is the working budget less that sum, and not negative.    *)
(* No tool of the server refreshes the context: the cache is as            *)
(* constructed.                                                            *)
(***************************************************************************)
C20_ServerContextInfo ==
    (result.op \in {"context_show", "get_current_context"} /\ result.status = "ok") =>
        LET info == IF result.op = "context_show" THEN result.value.context_engine
                    ELSE result.value.context_info
            cost == [i \in DOMAIN current_context |-> current_context[i].token_estimate]
            used == Sum(cost, DOMAIN current_context)
        IN  /\ {"current_items", "estimated_usage", "remaining_capacity"}
                   \subseteq DOMAIN info
            /\ info.current_items = Len(current_context)
            /\ info.estimated_usage = used
            /\ info.remaining_capacity = WorkingTokens(info.max_tokens) - used
            /\ info.remaining_capacity >= 0

(***************************************************************************)
(* C21: after every sequence of create_project and update_project calls,   *)
(* every stored project has a name that is not empty, not only whitespace, *)
(* at most MAX_PROJECT_NAME_LENGTH characters long, and different from the *)
(* name of every other stored project.                                     *)
(***************************************************************************)
C21_ProjectNamesValid ==
    \A p \in projects :
        /\ p.name # <<>>
        /\ strip(p.name) # <<>>
        /\ Len(p.name) <= MAX_PROJECT_NAME_LENGTH
        /\ \A q \in projects : q.id # p.id => q.name # p.name

(***************************************************************************)
(* C22: when the server starts with a state file that holds an integer     *)
(* which is not the id of a stored project (any integer, 0 and negative    *)
(* ones included), the start succeeds with no current project and the      *)
(* state file is removed; when the integer is the id of a stored project,  *)
(* that project is the current project.                                    *)
(***************************************************************************)
C22_StartupLoadsStateFile ==
    [][(result'.op = "__init__" /\ state_file.exists /\ state_file.parses) =>
          IF ProjectExists(state_file.value)
          THEN /\ result'.status = "ok"
               /\ current_project_id' = state_file.value
          ELSE /\ result'.status = "ok"
               /\ current_project_id' = 0
               /\ state_file' = NoStateFile]_vars

(***************************************************************************)
(* Concurrent callers.  Every store method opens a connection of its own   *)
(* (_get_connection), runs its statement, which begins a transaction and   *)
(* takes the write lock of the database, and commits.  The tables of the   *)
(* model are the committed state, which is what every other connection     *)
(* reads; the rows a transaction has written are in its connection until   *)
(* it commits.  A caller that finds the lock taken fails with "database is *)
(* locked" when CONNECTION_TIMEOUT has passed.                             *)
(***************************************************************************)
\* the committed state, as a statement finds it
Committed ==
    [projects |-> projects, characters |-> characters, plots |-> plots,
     world_building |-> world_building, scenes |-> scenes,
     writing_sessions |-> writing_sessions, memory_search |-> memory_search,
     sqlite_sequence |-> sqlite_sequence]

\* the methods callers run at the same time
WritingMethods == {"add_character", "add_plot", "add_world_building",
                   "record_writing_session", "delete_project"}

\* INSERT INTO characters: the row, and the row its AFTER INSERT trigger adds
character_inserted(db, project_id, name) ==
    LET id == db.sqlite_sequence["characters"] + 1
        new == [id |-> id, project_id |-> project_id, name |-> strip(name),
                importance |-> "minor", description |-> <<>>, relationships |-> "{}"]
    IN  [db EXCEPT !.characters = @ \cup {new},
                   !.memory_search = fts_insert(@, "character", new, new.name),
                   !.sqlite_sequence = [@ EXCEPT !["characters"] = id]]

plot_inserted(db, project_id, title) ==
    LET id == db.sqlite_sequence["plots"] + 1
        new == [id |-> id, project_id |-> project_id, title |-> title,
                description |-> <<>>, plot_type |-> "main"]
    IN  [db EXCEPT !.plots = @ \cup {new},
                   !.memory_search = fts_insert(@, "plot", new, new.title),
                   !.sqlite_sequence = [@ EXCEPT !["plots"] = id]]

world_building_inserted(db, project_id, name) ==
    LET id == db.sqlite_sequence["world_building"] + 1
        new == [id |-> id, project_id |-> project_id, name |-> name,
                description |-> <<>>]
    IN  [db EXCEPT !.world_building = @ \cup {new},
                   !.memory_search = fts_insert(@, "world_building", new, new.name),
                   !.sqlite_sequence = [@ EXCEPT !["world_building"] = id]]

writing_session_inserted(db, project_id) ==
    LET id == db.sqlite_sequence["writing_sessions"] + 1
    IN  [db EXCEPT !.writing_sessions = @ \cup {[id |-> id, project_id |-> project_id]},
                   !.sqlite_sequence = [@ EXCEPT !["writing_sessions"] = id]]

\* DELETE FROM projects WHERE id = ?, with its cascade and the triggers
project_deleted(db, project_id) ==
    LET Gone(rows) == on_delete_cascade(rows, project_id)
    IN  [db EXCEPT
            !.projects = {p \in @ : p.id # project_id},
            !.characters = @ \ Gone(db.characters),
            !.plots = @ \ Gone(db.plots),
            !.world_building = @ \ Gone(db.world_building),
            !.scenes = @ \ Gone(db.scenes),
            !.writing_sessions = @ \ Gone(db.writing_sessions),
            !.memory_search =
                fts_delete_all(
                    fts_delete_all(
                        fts_delete_all(@, "character", Gone(db.characters)),
                        "plot", Gone(db.plots)),
                    "world_building", Gone(db.world_building))]

\* the statement of the method, on the state it finds
statement(op, db, project_id, name) ==
    CASE op = "add_character" -> character_inserted(db, project_id, name)
      [] op = "add_plot" -> plot_inserted(db, project_id, name)
      [] op = "add_world_building" -> world_building_inserted(db, project_id, name)
      [] op = "record_writing_session" -> writing_session_inserted(db, project_id)
      [] op = "delete_project" -> project_deleted(db, project_id)

\* PRAGMA foreign_keys left off: no statement fails on its foreign key
foreign_keys_off(db, op, project_id) == TRUE

\* PRAGMA foreign_keys = ON: the INSERT needs the row of its project
foreign_keys_on(db, op, project_id) ==
    op = "delete_project" \/ \E p \in db.projects : p.id = project_id

\* the call is taken by the first caller that has no call in progress: which
\* of the callers that wait for a call takes it makes no difference
Idle(c) ==
    /\ connections[c].pc = "closed"
    /\ \A other \in Callers : other < c => connections[other].pc # "closed"

\* the write lock is taken by a transaction that has written
WriteLocked == \E c \in Callers : connections[c].pc = "written"

\* the call of caller c returns or raises; of the calls of concurrent callers
\* the result keeps the method and the outcome
Returned(c, call, status, value) ==
    /\ result' = Call(call.op, 0, <<>>, status, value)
    /\ connections' = [connections EXCEPT ![c] = Closed]
    /\ UNCHANGED <<engine, session, server, clock>>

\* a call that has not opened the connection it writes with
Calling(op, project_id, name) ==
    [pc |-> "validated", op |-> op, project_id |-> project_id, name |-> name,
     pending |-> <<>>]

\* add_character is called: it validates its arguments, the project id with a
\* connection of its own, before it opens the connection it writes with
validated(c, project_id, name) ==
    /\ Idle(c)
    /\ LET validation == IF _validate_project_id(project_id) # "ok"
                         THEN _validate_project_id(project_id)
                         ELSE _validate_title(name)
       IN  IF validation # "ok"
           THEN /\ result' = Call("add_character", 0, <<>>, validation, 0)
                /\ UNCHANGED connections
           ELSE /\ connections' = [connections EXCEPT ![c] =
                                      Calling("add_character", project_id, name)]
                /\ UNCHANGED result
    /\ UNCHANGED <<store, engine, session, server, clock>>

\* with self._get_connection() as conn: conn.execute(...).  The statement
\* begins the transaction and writes; when the lock is not released within
\* CONNECTION_TIMEOUT it fails with "database is locked", and when the
\* foreign key fails it is undone; conn.rollback() is called and the method
\* raises DatabaseError
executed(c, call) ==
    /\ IF WriteLocked
       THEN Returned(c, call, _get_connection("sqlite3.OperationalError"), 0)
       ELSE IF foreign_keys_on(Committed, call.op, call.project_id)
       THEN /\ call.op # "delete_project" => RowsEver < MaxRows
            /\ connections' = [connections EXCEPT ![c] =
                   [call EXCEPT !.pc = "written",
                                !.pending = statement(call.op, Committed,
                                                      call.project_id, call.name)]]
            /\ UNCHANGED <<result, engine, session, server, clock>>
       ELSE Returned(c, call, _get_connection("sqlite3.IntegrityError"), 0)
    /\ UNCHANGED store

\* add_character goes on to its INSERT
add_character_executed(c) ==
    /\ connections[c].pc = "validated"
    /\ executed(c, connections[c])

\* a method that does not validate is called
called(c, op, project_id, name) ==
    /\ Idle(c)
    /\ executed(c, Calling(op, project_id, name))

\* what a commit makes of the committed state, with the index rows of the
\* transaction left out of it
committed_without_index(db, pending) ==
    [pending EXCEPT !.memory_search = db.memory_search]

\* what a commit makes of the committed state: everything the transaction
\* wrote, at once
committed(db, pending) == pending

\* conn.commit()
commit(c) ==
    /\ connections[c].pc = "written"
    /\ LET after == committed(Committed, connections[c].pending)
       IN  /\ projects' = after.projects
           /\ characters' = after.characters
           /\ plots' = after.plots
           /\ world_building' = after.world_building
           /\ scenes' = after.scenes
           /\ writing_sessions' = after.writing_sessions
           /\ memory_search' = after.memory_search
           /\ sqlite_sequence' = after.sqlite_sequence
    /\ Returned(c, connections[c], "ok", 0)

\* the caller's process ends before conn.commit(): the transaction is lost
killed(c) ==
    /\ connections[c].pc = "written"
    /\ connections' = [connections EXCEPT ![c] = Closed]
    /\ UNCHANGED <<store, result, engine, session, server, clock>>

\* a reader: what a connection sees of the entity tables and the index
read(c) ==
    /\ Idle(c)
    /\ result' = Call("read", 0, <<>>, "ok",
                      [characters |-> characters, plots |-> plots,
                       world_building |-> world_building,
                       memory_search |-> memory_search])
    /\ UNCHANGED <<store, engine, session, server, clock, connections>>

NextConcurrent ==
    \/ ~WriteLocked /\ create_project(<<"a">>, 0)
    \/ \E c \in Callers, project_id \in 1..MaxProjects :
           validated(c, project_id, <<"a">>)
    \/ \E c \in Callers : add_character_executed(c)
    \/ \E c \in Callers, op \in WritingMethods \ {"add_character"},
          project_id \in 1..MaxProjects :
           called(c, op, project_id, <<"a">>)
    \/ \E c \in Callers : commit(c)
    \/ \E c \in Callers : killed(c)
    \/ \E c \in Callers : read(c)

SpecConcurrent == Init /\ [][NextConcurrent]_vars

(***************************************************************************)
(* Properties of concurrent callers.                                       *)
(***************************************************************************)
\* the entity rows a reader sees, each with its type and its title
SeenEntities(seen) ==
    {[content_type |-> "character", entity_id |-> e.id, title |-> e.name] :
         e \in seen.characters}
    \cup {[content_type |-> "plot", entity_id |-> e.id, title |-> e.title] :
              e \in seen.plots}
    \cup {[content_type |-> "world_building", entity_id |-> e.id, title |-> e.name] :
              e \in seen.world_building}

\* the index rows a reader sees, without their project
SeenIndex(seen) ==
    {[content_type |-> r.content_type, entity_id |-> r.entity_id, title |-> r.title] :
         r \in BagToSet(seen.memory_search)}

\* what a reader sees has every entity in the index once, under its title,
\* and nothing else in the index
EntityAndIndexTogether(seen) ==
    /\ SeenEntities(seen) = SeenIndex(seen)
    /\ \A r \in BagToSet(seen.memory_search) : seen.memory_search[r] = 1

Heist == SubSeq(TheHeist, 5, 9)

MentionArgs == {Mira, Bob, Heist}

\* the orders in which a for loop may go through a set
Orders(set) ==
    {order \in [1..Cardinality(set) -> set] :
        \A i, j \in DOMAIN order : i # j => order[i] # order[j]}

MemoryItemArgs ==
    {character_memory([id |-> 1, project_id |-> 1, name |-> Mira,
                       importance |-> "main", description |-> <<>>,
                       relationships |-> json_loads("{}")]),
     character_memory([id |-> 2, project_id |-> 1, name |-> Bob,
                       importance |-> "minor", description |-> Mira,
                       relationships |-> json_loads("{\"Mira\": \"ally\"}")]),
     plot_memory([id |-> 1, project_id |-> 1, title |-> TheHeist,
                  description |-> Planned, plot_type |-> "main"]),
     world_memory([id |-> 1, project_id |-> 1, name |-> Vault,
                   description |-> <<>>])}

\* the for loop with a break at the first entity that is not in the item
RECURSIVE for_entity_until_miss(_, _, _, _, _)
for_entity_until_miss(order, i, title, content, score) ==
    IF i > Len(order) THEN score
    ELSE IF Contains(title, lower(order[i])) \/ Contains(content, lower(order[i]))
    THEN for_entity_until_miss(order, i + 1, title, content,
                               score + scoring_weights.name_match)
    ELSE score

\* for entity in entities: if entity.lower() in title or entity.lower() in
\* content: score += self.scoring_weights["name_match"], from the i-th entity
\* of the iteration on
RECURSIVE for_entity_in_entities(_, _, _, _, _)
for_entity_in_entities(order, i, title, content, score) ==
    IF i > Len(order) THEN score
    ELSE for_entity_in_entities(order, i + 1, title, content,
             IF Contains(title, lower(order[i])) \/ Contains(content, lower(order[i]))
             THEN score + scoring_weights.name_match
             ELSE score)

\* calculate_relevance_score with the iteration order of its set of entities
\* given: every term but the mentions' is the term of the score without
\* mentions, and the terms are whole numbers of units
calculate_relevance_score_iterating(memory_item, current_text, order) ==
    LET others == calculate_relevance_score(memory_item, current_text, {})
    IN  IF others.raised THEN others
        ELSE [raised |-> FALSE,
              score |-> for_entity_in_entities(order, 1, lower(memory_item.title),
                                               lower(memory_item.content),
                                               others.score)]

score_calculated(memory_item, current_text, order) ==
    /\ result' = Call("calculate_relevance_score", 0, current_text, "ok",
                      [memory_item |-> memory_item,
                       entities |-> {order[i] : i \in DOMAIN order},
                       score |-> calculate_relevance_score_iterating(
                                     memory_item, current_text, order)])
    /\ UNCHANGED <<store, engine, session, server, clock, connections>>

\* between two calls of the scorer the engine's cache is refreshed or
\* cleared and auto_context is set
engine_state_changed(enabled, context) ==
    /\ result.op = "calculate_relevance_score"
    /\ auto_context' = enabled
    /\ current_context' = context
    /\ UNCHANGED <<store, engine, result, server, clock, connections>>

\* say "..." now
Ellipsis == <<"s","a","y"," ","\"",".",".",".","\""," ","n","o","w">>

\* "Hi!" said Mira
HiSaidMira == <<"\"","H","i","!","\""," ","s","a","i","d"," ","M","i","r","a">>

\* "the vault."
TheVault == <<"\"","t","h","e"," ","v","a","u","l","t",".","\"">>

QuotedArgs == {Ellipsis, HiSaidMira, TheVault, Excerpt}

entities_extracted(text) ==
    /\ result' = Call("extract_entities", 0, text, "ok", extract_entities(text))
    /\ UNCHANGED <<store, engine, session, server, clock, connections>>

NextScoring ==
    \/ \E memory_item \in MemoryItemArgs, current_text \in Excerpts,
          entities \in SUBSET MentionArgs :
           \E order \in Orders(entities) :
               score_calculated(memory_item, current_text, order)
    \/ \E enabled \in BOOLEAN,
          context \in {<<>>, <<ContextItem(world_memory([id |-> 1, project_id |-> 1,
                                                        name |-> Vault,
                                                        description |-> <<>>]),
                                          SCORE_UNITS)>>} :
           engine_state_changed(enabled, context)
    \/ \E text \in QuotedArgs : entities_extracted(text)

SpecScoring == Init /\ [][NextScoring]_vars

SameArguments(call, other) ==
    /\ call.op = "calculate_relevance_score"
    /\ other.op = "calculate_relevance_score"
    /\ call.name = other.name
    /\ call.value.memory_item = other.value.memory_item
    /\ call.value.entities = other.value.entities

\* C24: calculate_relevance_score is deterministic: the same item, the same
\* excerpt and the same set of mentions give the same score, whatever the
\* order in which the set of mentions is gone through and whatever the state
\* of the engine.
C24_ScoreDeterministic ==
    [][result'.op = "calculate_relevance_score" =>
          /\ \A order \in Orders(result'.value.entities) :
                 calculate_relevance_score_iterating(result'.value.memory_item,
                                                     result'.name, order)
                     = result'.value.score
          /\ result'.value.score =
                 calculate_relevance_score(result'.value.memory_item, result'.name,
                                           result'.value.entities)
          /\ SameArguments(result, result') =>
                 result'.value.score = result.value.score]_vars

\* C24 witness: an item was scored with two mentions, one of which is in the
\* item and one of which is not, in an engine whose cache is filled and whose
\* auto_context is off.
C24_Witness ==
    /\ result.op = "calculate_relevance_score"
    /\ ~result.value.score.raised
    /\ result.value.entities = {Mira, Bob}
    /\ result.value.memory_item.content_type = "plot"
    /\ result.value.score.score >= scoring_weights.name_match
    /\ ~auto_context
    /\ current_context # <<>>

\* the words of the quoted spans of text
SpanWords(text) ==
    UNION {split(SubSeq(text, q[1], q[2])) : q \in quoted_spans(text, 1)}

\* C25: every mention extract_entities derives from a quoted span is a word
\* of that span with its trailing punctuation stripped and is longer than 2
\* characters after the stripping, and the empty string is never a mention.
C25_QuotedMentions ==
    result.op = "extract_entities" =>
        /\ quoted_words(result.name) \subseteq result.value
        /\ \A mention \in quoted_words(result.name) :
               /\ \E word \in SpanWords(result.name) :
                      mention = rstrip_punctuation(word)
               /\ Len(mention) > 2
        /\ <<>> \notin result.value

\* the rows that reference a project
ChildRows == characters \cup plots \cup world_building \cup scenes \cup writing_sessions

TierOrder(t) ==
    LET sorted_items == sorted_by_score(candidate_items)
    IN  CASE t = 1 -> high_importance(sorted_items)
          [] t = 2 -> medium_importance(sorted_items)
          [] t = 3 -> low_importance(sorted_items)

\* the items selected of tier t, in the order of the output
SelectedOfTier(t) ==
    CASE t = 1 -> high_importance(selected_items)
      [] t = 2 -> medium_importance(selected_items)
      [] t = 3 -> low_importance(selected_items)

\* candidate i is in the output, whole or truncated
InOutput(i) ==
    \E k \in DOMAIN selected_items :
        selected_items[k].entity_id = candidate_items[i].entity_id

\* C27: in the output of optimize_context_for_tokens the items of one
\* importance tier are in non-increasing order of relevance score, and the
\* items selected of a tier are a prefix of the tier's score-descending order:
\* no item is selected while an item of its tier with a higher score is left
\* out.
C27_TierPrefix ==
    Selected =>
        /\ \A i, j \in DOMAIN selected_items :
               (i < j /\ Tier(selected_items[i]) = Tier(selected_items[j]))
                   => selected_items[i].relevance_score
                          >= selected_items[j].relevance_score
        /\ \A t \in 1..3 :
               /\ Len(SelectedOfTier(t)) <= Len(TierOrder(t))
               /\ \A k \in DOMAIN SelectedOfTier(t) :
                      SelectedOfTier(t)[k].entity_id = TierOrder(t)[k].entity_id
        /\ \A i, j \in DOMAIN candidate_items :
               (/\ InOutput(i)
                /\ Tier(candidate_items[j]) = Tier(candidate_items[i])
                /\ candidate_items[j].relevance_score
                       > candidate_items[i].relevance_score)
                   => InOutput(j)

\* C27 witness: the item of a tier with the higher score is selected, the
\* item of the same tier with the lower score is left out for want of budget,
\* and an item of a lower tier is selected behind them.
C27_Witness ==
    /\ Selected
    /\ \E i, j, k \in DOMAIN candidate_items :
           /\ Tier(candidate_items[i]) = Tier(candidate_items[j])
           /\ candidate_items[i].relevance_score > candidate_items[j].relevance_score
           /\ InOutput(i)
           /\ ~InOutput(j)
           /\ Tier(candidate_items[k]) > Tier(candidate_items[i])
           /\ InOutput(k)

\* output item k is candidate i as it came, or candidate i truncated
Corresponds(k, i) ==
    \/ selected_items[k] = candidate_items[i]
    \/ /\ selected_items[k].content.truncated
       /\ selected_items[k].entity_id = candidate_items[i].entity_id
       /\ selected_items[k].relevance_score = candidate_items[i].relevance_score
       /\ selected_items[k].importance = candidate_items[i].importance

\* C28: when the summed token cost of the candidates is at most the working
\* budget, optimize_context_for_tokens returns every candidate once and
\* truncates none; in general every output item corresponds to exactly one
\* candidate, and no candidate is in the output twice.
C28_OutputOfCandidates ==
    Selected =>
        /\ \A k \in DOMAIN selected_items :
               Cardinality({i \in DOMAIN candidate_items : Corresponds(k, i)}) = 1
        /\ \A i \in DOMAIN candidate_items :
               Cardinality({k \in DOMAIN selected_items : Corresponds(k, i)}) <= 1
        /\ TokenSum(candidate_items) <= working_tokens =>
               /\ Len(selected_items) = Len(candidate_items)
               /\ \A i \in DOMAIN candidate_items :
                      \E k \in DOMAIN selected_items :
                          selected_items[k] = candidate_items[i]

\* C28 witness: three candidates of three tiers that cost no more than the
\* budget together, all in the output.
C28_Witness ==
    /\ Selected
    /\ Len(candidate_items) = MaxCandidates
    /\ {Tier(candidate_items[i]) : i \in DOMAIN candidate_items} = 1..3
    /\ TokenSum(candidate_items) <= working_tokens
    /\ \E i \in DOMAIN candidate_items : candidate_items[i].token_estimate > 5
    /\ Len(selected_items) = MaxCandidates

(***************************************************************************)
(* Properties of the importance boost.                                     *)
(***************************************************************************)
\* the selection holds the entity as an item of the highest tier with at
\* least the importance weight as its score, before every item of a lower
\* tier
BoostedInSelection(selection, content_type, entity_id) ==
    \E i \in DOMAIN selection :
        /\ selection[i].content_type = content_type
        /\ selection[i].entity_id = entity_id
        /\ selection[i].relevance_score >= scoring_weights.importance
        /\ selection[i].importance = "high"
        /\ \A j \in 1..(i - 1) : selection[j].importance = "high"

\* C29: for every excerpt that is not blank, every character with importance
\* main and every plot with plot_type main (the default of a plot added
\* without one) gets the importance boost: its score is at least 1.2 and it
\* is a candidate of the highest tier, whether or not the excerpt mentions it.
\* The budget of the engine holds every candidate of the model's projects, so
\* that every candidate is in the selection.
C29_MainItemsBoosted ==
    (result.op = "get_relevant_context" /\ strip(result.name) # <<>>) =>
        /\ \A c \in Owned(characters, result.project_id) :
               c.importance = "main" =>
                   BoostedInSelection(result.value, "character", c.id)
        /\ \A p \in Owned(plots, result.project_id) :
               p.plot_type = "main" =>
                   BoostedInSelection(result.value, "plot", p.id)

\* C30: whenever the project_switch tool answers with an error message, the
\* server's current project id and the state file are what they were before
\* the call: they change only when the tool reports success.
C30_FailedSwitchChangesNothing ==
    [][(result'.op = "project_switch" /\ result'.status = "ERROR") =>
          /\ current_project_id' = current_project_id
          /\ state_file' = state_file]_vars

====
